---------------------------- MODULE Spec2Model ----------------------------
(***************************************************************************)
(* The file-entry store and the write / batch-write / annotate handlers of *)
(* the pic-auto client (src/unnamed/part_000, the Home component).         *)
(*                                                                         *)
(* Text is a sequence of tokens: ".", "/", " ", "," are one-character      *)
(* tokens, every other token is a maximal run of other characters.         *)
(* A handler is one action up to its first await; every continuation that  *)
(* runs after an await is the action of the response that resumes it.      *)
(***************************************************************************)
EXTENDS Integers, Sequences, FiniteSets, Bags, TLC

(***************************************************************************)
(* Bounds of the model.  MAX_GEMINI_FILES is 50 in the source              *)
(* (part_000:21); the model runs it scaled down so that the cap is reached.*)
(***************************************************************************)
MAX_GEMINI_FILES == 3
\* the most files the annotation service takes in one request: 3 in the source
\* (route.ts:10), scaled down with MAX_GEMINI_FILES and below it as there
MAX_FILES == 2
\* the most tags the annotation service keeps of a result: 5 in the source
\* (route.ts:11), scaled down so that a result exceeds it
MAX_TAGS == 2
\* the number of user events (selections, edits, removals, clicks) of a run
MaxEvents == 3

(***************************************************************************)
(* Text helpers                                                            *)
(***************************************************************************)
Lower(tok) ==
    CASE tok = "JPG" -> "jpg"
      [] tok = "PNG" -> "png"
      [] OTHER -> tok

toLowerCase(s) == [i \in DOMAIN s |-> Lower(s[i])]

\* index of the last "." of s, 0 when there is none
lastIndexOfDot(s) ==
    LET dots == {i \in DOMAIN s : s[i] = "."}
    IN  IF dots = {} THEN 0 ELSE CHOOSE i \in dots : \A j \in dots : j <= i

\* white space: the blank and the line feed (a one-character token too)
isSpace(tok) == tok \in {" ", "\n"}

\* String.prototype.trim on tokens: drop leading and trailing white space
RECURSIVE trimStart(_)
trimStart(s) == IF s # <<>> /\ isSpace(Head(s)) THEN trimStart(Tail(s)) ELSE s

RECURSIVE trimEnd(_)
trimEnd(s) ==
    IF s # <<>> /\ isSpace(s[Len(s)]) THEN trimEnd(SubSeq(s, 1, Len(s) - 1)) ELSE s

trim(s) == trimEnd(trimStart(s))

(***************************************************************************)
(* Files the user can select                                               *)
(***************************************************************************)
JPEG == "image/jpeg"
PNG == "image/png"

MkFile(name, size, lastModified, type, data) ==
    [name |-> name, size |-> size, lastModified |-> lastModified,
     type |-> type, data |-> data]

FileA == MkFile(<<"a", ".", "jpg">>, 1, 1, JPEG, "dA")
\* another file with the name, size and modification time of FileA
FileA2 == MkFile(<<"a", ".", "jpg">>, 1, 1, JPEG, "dA2")
\* same base name as FileA, other extension
FileAPng == MkFile(<<"a", ".", "png">>, 1, 1, PNG, "dAp")
\* no declared type: admitted on its (upper-case) extension
FileB == MkFile(<<"b", ".", "JPG">>, 2, 1, "", "dB")
FileC == MkFile(<<"c", ".", "jpg">>, 1, 2, JPEG, "dC")
\* unsupported
FileX == MkFile(<<"x", ".", "txt">>, 1, 1, "text/plain", "dX")

SUPPORTED_MIME_TYPES == {"image/jpeg", "image/png", "image/webp", "image/x-webp"}
SUPPORTED_EXTENSIONS == {<<"jpg">>, <<"jpeg">>, <<"png">>, <<"webp">>}

isSupportedFile(file) ==
    LET type == Lower(file.type)
        lower == toLowerCase(file.name)
        d == lastIndexOfDot(lower)
        \* parts.length > 1 ? parts.pop() : ""
        ext == IF d = 0 THEN <<>> ELSE SubSeq(lower, d + 1, Len(lower))
    IN  IF type # "" /\ type \in SUPPORTED_MIME_TYPES
        THEN TRUE
        ELSE ext # <<>> /\ ext \in SUPPORTED_EXTENSIONS

\* file.name.replace(/\.[^/.]+$/, "") || "image", then + "-iptc.jpg"
getDownloadName(file) ==
    LET n == file.name
        d == lastIndexOfDot(n)
        matches == d > 0 /\ d < Len(n) /\ \A j \in (d + 1)..Len(n) : n[j] # "/"
        stripped == IF matches THEN SubSeq(n, 1, d - 1) ELSE n
        base == IF stripped = <<>> THEN <<"image">> ELSE stripped
    IN  base \o <<"-iptc", ".", "jpg">>

Digits(n) == <<"0", "1", "2", "3", "4", "5", "6", "7", "8", "9">>[n + 1]

\* `${name}-${file.size}-${file.lastModified}`
getFileSignature(file) ==
    LET name == IF file.name = <<>> THEN <<"image">> ELSE file.name
    IN  name \o <<"-", Digits(file.size), "-", Digits(file.lastModified)>>

(***************************************************************************)
(* Status values                                                           *)
(***************************************************************************)
Status(type, message) == [type |-> type, message |-> message]

initialStatus == Status("idle", <<>>)


(***************************************************************************)
(* State                                                                   *)
(***************************************************************************)
VARIABLES
    fileEntries,    \* useState<FileEntry[]>: the store, in insertion order
    aiStatus,       \* useState<StatusState>
    bulkStatus,     \* useState<StatusState>
    nextId,         \* the next value createClientId returns
    calls,          \* requests to /api/iptc/write that have not resolved yet (a bag)
    passes,         \* the runs of handleWriteAll, in the order they started
    aiCalls,        \* requests to /api/gemini/generate that have not resolved (a bag)
    downloads,      \* what downloadBlob was called with (a bag)
    nEvents,        \* number of user events so far
    lastEdit,       \* the last title/tags edit: the entry's writeStatus type before it
    lastSelect,     \* the last selection handled: its files, entries before, admitted
    lastAi,         \* the last annotate response handled: its request, what it
                    \* carried and the store it found
    revoked,        \* the preview URLs URL.revokeObjectURL was called with (a bag)
    mounted,        \* the component is mounted
    writer,         \* one run of POST /api/iptc/write, step by step
    annotator       \* one run of POST /api/gemini/generate, step by step

\* the state of the Home component
clientVars == <<fileEntries, aiStatus, bulkStatus, nextId, calls, passes, aiCalls,
                downloads, nEvents, lastEdit, lastSelect, lastAi, revoked, mounted>>

vars == <<fileEntries, aiStatus, bulkStatus, nextId, calls, passes, aiCalls,
          downloads, nEvents, lastEdit, lastSelect, lastAi, revoked, mounted,
          writer, annotator>>

\* no run of the service is looked at
ServiceIdle == [pc |-> "idle"]

ClientInit ==
    /\ fileEntries = <<>>
    /\ aiStatus = initialStatus
    /\ bulkStatus = initialStatus
    /\ nextId = 1
    /\ calls = EmptyBag
    /\ passes = <<>>
    /\ aiCalls = EmptyBag
    /\ downloads = EmptyBag
    /\ nEvents = 0
    /\ lastEdit = "none"
    /\ lastSelect = [files |-> <<>>, before |-> 0, admitted |-> 0]
    /\ lastAi = [kind |-> "none"]
    /\ revoked = EmptyBag
    /\ mounted = TRUE

\* the component as it mounts; the services are looked at in WriterSpec and
\* AnnotatorSpec
Init ==
    /\ ClientInit
    /\ writer = ServiceIdle
    /\ annotator = ServiceIdle

\* a user event: a run handles at most MaxEvents of them, all of them while
\* the component is mounted
UserEvent == mounted /\ nEvents < MaxEvents /\ nEvents' = nEvents + 1

(***************************************************************************)
(* Sequence helpers                                                        *)
(***************************************************************************)
\* a bag with one more, one less copy of x
Put(bag, x) == bag (+) SetToBag({x})
Take(bag, x) == bag (-) SetToBag({x})

Ids(entries) == {entries[i].id : i \in DOMAIN entries}

\* Array.prototype.find: the first entry with this id (the caller checks Ids)
Find(entries, entryId) ==
    entries[CHOOSE i \in DOMAIN entries :
                /\ entries[i].id = entryId
                /\ \A j \in DOMAIN entries : entries[j].id = entryId => i <= j]

(***************************************************************************)
(* Selection: handleFileChange                                             *)
(***************************************************************************)
\* URL.createObjectURL(file): a URL no earlier call returned; the n-th entry
\* created gets the n-th URL
createObjectURL(n) == <<"blob:", n>>

\* lines 34-39: an id no earlier call returned, a text of one token
createClientId(n) == <<ToString(n)>>

\* lines 142-150
NewEntry(id, file, signature) ==
    [id |-> createClientId(id), file |-> file, previewUrl |-> createObjectURL(id),
     signature |-> signature,
     title |-> <<>>, tags |-> <<>>, writeStatus |-> initialStatus]

RECURSIVE AdmitLoop(_, _, _, _, _, _)
\* the for loop of handleFileChange over `supported`
AdmitLoop(supported, existingSignatures, availableSlots, id, newEntries, skippedDuplicates) ==
    IF supported = <<>> \/ availableSlots <= 0
    THEN [newEntries |-> newEntries, skippedDuplicates |-> skippedDuplicates]
    ELSE LET file == Head(supported)
             signature == getFileSignature(file)
         IN  IF signature \in existingSignatures
             THEN AdmitLoop(Tail(supported), existingSignatures, availableSlots,
                            id, newEntries, skippedDuplicates + 1)
             ELSE AdmitLoop(Tail(supported), existingSignatures \cup {signature},
                            availableSlots - 1, id + 1,
                            Append(newEntries, NewEntry(id, file, signature)),
                            skippedDuplicates)

\* the admission without the capacity: every new signature is admitted
AdmissionWithoutCapacity(entries, supported, id) ==
    AdmitLoop(supported, {entries[i].signature : i \in DOMAIN entries},
              Len(supported), id, <<>>, 0)

\* the admission without the signatures of the store: only the duplicates
\* within the selection are skipped
AdmissionWithoutStoreSignatures(entries, supported, id) ==
    AdmitLoop(supported, {}, MAX_GEMINI_FILES - Len(entries), id, <<>>, 0)

\* an admission that counts one slot more than the store has left
AdmissionWithOneSlotMore(entries, supported, id) ==
    AdmitLoop(supported, {entries[i].signature : i \in DOMAIN entries},
              MAX_GEMINI_FILES - Len(entries) + 1, id, <<>>, 0)

\* lines 128-153
Admission(entries, supported, id) ==
    AdmitLoop(supported, {entries[i].signature : i \in DOMAIN entries},
              MAX_GEMINI_FILES - Len(entries), id, <<>>, 0)

\* lines 116-121: the first status handleFileChange sets
FormatStatus(files, supported) ==
    IF Len(supported) # Len(files)
    THEN Status("error", <<"unsupported_format">>)
    ELSE initialStatus

\* the status handleFileChange sets after it (lines 123-126, 155-171): every
\* path through the handler sets one
AdmissionStatus(entries, supported, newEntries, skippedDuplicates) ==
    IF Len(entries) >= MAX_GEMINI_FILES THEN Status("error", <<"max_files">>)
    ELSE IF newEntries = <<>>
    THEN IF skippedDuplicates > 0
         THEN Status("error", <<"already_added">>)
         ELSE Status("error", <<"max_files">>)
    ELSE IF skippedDuplicates > 0 \/ Len(newEntries) < Len(supported)
    THEN Status("error", <<"some_skipped">>)
    ELSE initialStatus

\* the calls of setAiStatus of one run of the handler, in order: the state
\* after the handler is the one of the last call
SetAiStatusCalls(entries, files, supported, newEntries, skippedDuplicates) ==
    << FormatStatus(files, supported),
       AdmissionStatus(entries, supported, newEntries, skippedDuplicates) >>

\* a store that takes the new entries in front of the ones it has
AddedInFront(prev, newEntries) == newEntries \o prev

\* line 173: [...prev, ...newEntries]
Added(prev, newEntries) == prev \o newEntries

HandleFileChange(files) ==
    LET supported == SelectSeq(files, isSupportedFile)
        adm == Admission(fileEntries, supported, nextId)
        newEntries == adm.newEntries
        skippedDuplicates == adm.skippedDuplicates
        statuses == SetAiStatusCalls(fileEntries, files, supported, newEntries,
                                     skippedDuplicates)
    IN  /\ files # <<>>
        /\ UserEvent
        /\ UNCHANGED <<calls, passes, aiCalls, lastAi, downloads, lastEdit, revoked,
                       mounted,
                       writer, annotator>>
        /\ aiStatus' = statuses[Len(statuses)]
        /\ IF Len(fileEntries) >= MAX_GEMINI_FILES \/ newEntries = <<>>
           THEN UNCHANGED <<fileEntries, bulkStatus, nextId>>
           ELSE /\ fileEntries' = Added(fileEntries, newEntries)
                /\ bulkStatus' = initialStatus
                /\ nextId' = nextId + Len(newEntries)
        /\ lastSelect' = [files |-> files, before |-> Len(fileEntries),
                          admitted |-> Len(fileEntries') - Len(fileEntries)]

(***************************************************************************)
(* Edits: updateEntry, handleTitleChange, handleTagsChange                 *)
(***************************************************************************)
\* every updater is a spread { ...entry, field: value }: it is given as the
\* record of the fields it sets
Spread(entry, fields) ==
    [f \in DOMAIN entry |-> IF f \in DOMAIN fields THEN fields[f] ELSE entry[f]]

updateEntry(entries, entryId, updater) ==
    [i \in DOMAIN entries |->
        IF entries[i].id = entryId THEN Spread(entries[i], updater) ELSE entries[i]]

\* the updater of handleTitleChange
\* a title edit that keeps the entry's writeStatus
TitleEditedKeepingStatus(value) == [title |-> value]

TitleEdited(value) == [title |-> value, writeStatus |-> initialStatus]

\* the updater of handleTagsChange
TagsEdited(value) == [tags |-> value, writeStatus |-> initialStatus]

\* what the user types
EditTitles == {<<>>, <<"T">>}
EditTags == {<<>>, <<"g", ",", " ", "h">>}

HandleTitleChange(entryId, value) ==
    LET upd == TitleEdited(value)
    IN  /\ entryId \in Ids(fileEntries)
        \* a change event carries a value other than the one displayed
        /\ value # Find(fileEntries, entryId).title
        /\ UserEvent
        /\ lastEdit' = Find(fileEntries, entryId).writeStatus.type
        /\ fileEntries' = updateEntry(fileEntries, entryId, upd)
        /\ UNCHANGED <<aiStatus, bulkStatus, nextId, calls, passes, aiCalls, lastAi,
                       downloads, lastSelect, revoked, mounted,
                       writer, annotator>>

HandleTagsChange(entryId, value) ==
    LET upd == TagsEdited(value)
    IN  /\ entryId \in Ids(fileEntries)
        /\ value # Find(fileEntries, entryId).tags
        /\ UserEvent
        /\ lastEdit' = Find(fileEntries, entryId).writeStatus.type
        /\ fileEntries' = updateEntry(fileEntries, entryId, upd)
        /\ UNCHANGED <<aiStatus, bulkStatus, nextId, calls, passes, aiCalls, lastAi,
                       downloads, lastSelect, revoked, mounted,
                       writer, annotator>>

(***************************************************************************)
(* Removal: handleRemoveEntry                                              *)
(***************************************************************************)
\* URL.revokeObjectURL for the preview of every entry of a list
RECURSIVE RevokeEach(_, _)
RevokeEach(bag, entries) ==
    IF entries = <<>> THEN bag
    ELSE RevokeEach(Put(bag, Head(entries).previewUrl), Tail(entries))

\* a clear that releases the preview of the first entry only
RevokedByClearFirstOnly(bag, entries) ==
    IF entries = <<>> THEN bag ELSE Put(bag, Head(entries).previewUrl)

\* line 192: entries.forEach((entry) => URL.revokeObjectURL(entry.previewUrl))
RevokedByClear(bag, entries) == RevokeEach(bag, entries)

\* lines 203-209: the preview of the entry found is revoked
RevokedByRemove(bag, entries, entryId) ==
    IF entryId \in Ids(entries) THEN Put(bag, Find(entries, entryId).previewUrl) ELSE bag

\* a teardown that releases nothing
RevokedByTeardownNothing(bag, entries) == bag

\* lines 101-105: the cleanup of the mount effect, over entriesRef.current
RevokedByTeardown(bag, entries) == RevokeEach(bag, entries)

\* handleRemoveEntry("__all__"); the button is disabled during a batch pass
HandleRemoveAll ==
    /\ fileEntries # <<>>
    /\ bulkStatus.type # "loading"
    /\ UserEvent
    /\ revoked' = RevokedByClear(revoked, fileEntries)
    /\ fileEntries' = <<>>
    /\ aiStatus' = initialStatus
    /\ bulkStatus' = initialStatus
    /\ UNCHANGED <<nextId, calls, passes, aiCalls, lastAi, downloads, lastEdit, lastSelect,
                   mounted,
                       writer, annotator>>

\* handleRemoveEntry(entry.id).  `removed` and `nextLength` are assigned inside
\* the state updater: line 215 reads the updater's values only when React ran
\* the updater eagerly (ranEagerly); otherwise `removed` is still false there.
HandleRemoveEntry(entryId, ranEagerly) ==
    LET notThis(entry) == entry.id # entryId
        next == SelectSeq(fileEntries, notThis)
        removed == ranEagerly
        nextLength == IF ranEagerly THEN Len(next) ELSE Len(fileEntries)
    IN  /\ entryId \in Ids(fileEntries)
        /\ UserEvent
        /\ revoked' = RevokedByRemove(revoked, fileEntries, entryId)
        /\ fileEntries' = next
        /\ IF removed /\ nextLength = 0
           THEN aiStatus' = initialStatus /\ bulkStatus' = initialStatus
           ELSE UNCHANGED <<aiStatus, bulkStatus>>
        /\ UNCHANGED <<nextId, calls, passes, aiCalls, lastAi, downloads, lastEdit, lastSelect,
                       mounted,
                       writer, annotator>>

\* lines 97-99: entriesRef.current is the fileEntries of the last commit
entriesRef == fileEntries

\* the component unmounts (lines 101-105).  After it no handler runs and no
\* state of the component is set: the run ends here.
Teardown ==
    /\ mounted
    /\ mounted' = FALSE
    /\ revoked' = RevokedByTeardown(revoked, entriesRef)
    /\ UNCHANGED <<fileEntries, aiStatus, bulkStatus, nextId, calls, passes, aiCalls,
                   downloads, nEvents, lastEdit, lastSelect, lastAi, writer, annotator>>

(***************************************************************************)
(* The writer: handleWriteMetadata                                         *)
(***************************************************************************)
\* how a request to /api/iptc/write can end, as the client sees it
WriteOutcomes ==
    { [kind |-> "ok", hasError |-> FALSE, error |-> <<>>],
      \* !response.ok with a body {error: "..."}
      [kind |-> "not_ok", hasError |-> TRUE, error |-> <<"disk full">>],
      \* !response.ok with no body, or one that does not parse
      [kind |-> "not_ok", hasError |-> FALSE, error |-> <<>>],
      \* fetch or response.blob() rejects (a TypeError with this message)
      [kind |-> "throws", hasError |-> TRUE, error |-> <<"Failed to fetch">>] }

\* lines 341-344
WriteLoading == [writeStatus |-> Status("loading", <<"writing">>)]

\* lines 377-383
WriteSucceeded(skipDownload) ==
    [writeStatus |->
        Status("success", IF skipDownload THEN <<"written_zip">> ELSE <<"written">>)]

\* a message that never shows the error string of the writer
WriteErrorMessageGeneric(outcome) ==
    IF outcome.kind = "not_ok" THEN <<"write_failed">>
    ELSE IF outcome.hasError THEN outcome.error ELSE <<"unexpected">>

\* lines 357-368 and 385-389: the message the catch block stores
WriteErrorMessage(outcome) ==
    IF outcome.kind = "not_ok"
    THEN IF outcome.hasError THEN outcome.error ELSE <<"write_failed">>
    ELSE IF outcome.hasError THEN outcome.error ELSE <<"unexpected">>

\* a catch that handles the refusals of the writer only: after an exception
\* the entry is left as it is
WriteFailedOnRefusalOnly(outcome) ==
    IF outcome.kind = "throws" THEN <<>>
    ELSE [writeStatus |-> Status("error", WriteErrorMessage(outcome))]

\* lines 390-393
WriteFailed(outcome) ==
    [writeStatus |-> Status("error", WriteErrorMessage(outcome))]

\* the binary the writer returns for a request
Artifact(call) == [data |-> call.file.data, title |-> call.title, tags |-> call.tags]

\* the request handleWriteMetadata sends (lines 338-355): built from `entry`, the
\* entry found in the fileEntries of the closure that runs the handler
WriteCall(entry, skipDownload, pass) ==
    [id |-> entry.id, file |-> entry.file, title |-> entry.title,
     tags |-> entry.tags, skipDownload |-> skipDownload, pass |-> pass]

\* the store after the response of `call` was handled (lines 351-394)
StoreAfterWrite(entries, call, outcome) ==
    IF outcome.kind = "ok"
    THEN updateEntry(entries, call.id, WriteSucceeded(call.skipDownload))
    ELSE updateEntry(entries, call.id, WriteFailed(outcome))

\* downloadBlob(blob, downloadName), unless options.skipDownload (lines 370-375)
DownloadsAfterWrite(call, outcome) ==
    IF outcome.kind = "ok" /\ ~call.skipDownload
    THEN Put(downloads, [kind |-> "file", name |-> getDownloadName(call.file),
                         content |-> {Artifact(call)}, pass |-> 0])
    ELSE downloads

\* the per-entry write button (disabled while the entry's status is loading)
HandleWriteMetadata(entryId) ==
    /\ entryId \in Ids(fileEntries)
    /\ Find(fileEntries, entryId).writeStatus.type # "loading"
    /\ UserEvent
    /\ calls' = Put(calls, WriteCall(Find(fileEntries, entryId), FALSE, 0))
    /\ fileEntries' = updateEntry(fileEntries, entryId, WriteLoading)
    /\ UNCHANGED <<aiStatus, bulkStatus, nextId, passes, aiCalls, lastAi, downloads, lastEdit,
                   lastSelect, revoked, mounted,
                       writer, annotator>>

\* the response of a single-entry write
WriteResolve(call, outcome) ==
    /\ mounted
    /\ BagIn(call, calls)
    /\ call.pass = 0
    /\ calls' = Take(calls, call)
    /\ fileEntries' = StoreAfterWrite(fileEntries, call, outcome)
    /\ downloads' = DownloadsAfterWrite(call, outcome)
    /\ UNCHANGED <<aiStatus, bulkStatus, nextId, passes, aiCalls, lastAi, nEvents, lastEdit,
                   lastSelect, revoked, mounted,
                       writer, annotator>>

(***************************************************************************)
(* The batch pass: handleWriteAll                                          *)
(***************************************************************************)
\* zip.file(name, blob): an entry of the same name is replaced
ZipFile(zip, name, blob) ==
    {f \in zip : f.name # name} \cup {[name |-> name, blob |-> blob]}

\* the index of the for loop (over n entries) after the call for snap[idx]
\* returned `success`: the loop has no break
\* a loop that a failed write ends
NextIndexStoppingOnFailure(idx, success, n) == IF success THEN idx + 1 ELSE n + 1

NextIndex(idx, success, n) == idx + 1

\* a pass: snap is the fileEntries of the closure that runs handleWriteAll, idx
\* the loop's position, issuedFor the entries it called the writer for, bulk the
\* bulk status it last set
NewPass(snap) ==
    [snap |-> snap, idx |-> 1, successCount |-> 0, zip |-> {},
     issuedFor |-> <<snap[1].id>>, pc |-> "await",
     bulk |-> Status("loading", <<"writing_all">>)]

\* the batch button (rendered when the store is not empty, disabled during a pass)
HandleWriteAll ==
    /\ fileEntries # <<>>
    /\ bulkStatus.type # "loading"
    /\ UserEvent
    /\ bulkStatus' = Status("loading", <<"writing_all">>)
    /\ passes' = Append(passes, NewPass(fileEntries))
    \* the first iteration runs up to its fetch in the same task
    /\ calls' = Put(calls, WriteCall(fileEntries[1], TRUE, Len(passes) + 1))
    /\ fileEntries' = updateEntry(fileEntries, fileEntries[1].id, WriteLoading)
    /\ UNCHANGED <<aiStatus, nextId, aiCalls, lastAi, downloads, lastEdit, lastSelect,
                   revoked, mounted,
                       writer, annotator>>

\* the response of the call a pass is waiting for: lines 351-396, then the loop
\* of handleWriteAll up to the next await (the next fetch, or generateAsync)
PassWriteResolve(call, outcome) ==
    LET p == call.pass
        pass == passes[p]
        success == outcome.kind = "ok"
        successCount == pass.successCount + (IF success THEN 1 ELSE 0)
        zip == IF success
               THEN ZipFile(pass.zip, getDownloadName(call.file), Artifact(call))
               ELSE pass.zip
        idx == NextIndex(pass.idx, success, Len(pass.snap))
        stored == StoreAfterWrite(fileEntries, call, outcome)
        entry == pass.snap[idx]
    IN  /\ mounted
        /\ BagIn(call, calls)
        /\ call.pass # 0
        /\ UNCHANGED <<aiStatus, nextId, aiCalls, lastAi, downloads, nEvents, lastEdit,
                       lastSelect, revoked, mounted,
                       writer, annotator>>
        /\ IF idx <= Len(pass.snap)
           THEN /\ calls' = Put(Take(calls, call), WriteCall(entry, TRUE, p))
                /\ fileEntries' = updateEntry(stored, entry.id, WriteLoading)
                /\ passes' = [passes EXCEPT ![p] =
                                [pass EXCEPT !.idx = idx, !.successCount = successCount,
                                             !.zip = zip,
                                             !.issuedFor = Append(@, entry.id)]]
                /\ UNCHANGED bulkStatus
           ELSE /\ calls' = Take(calls, call)
                /\ fileEntries' = stored
                /\ IF successCount = 0
                   THEN /\ bulkStatus' = Status("error", <<"all_failed">>)
                        /\ passes' = [passes EXCEPT ![p] =
                                        [pass EXCEPT !.idx = idx, !.pc = "done",
                                                     !.bulk = bulkStatus']]
                   ELSE /\ UNCHANGED bulkStatus
                        /\ passes' = [passes EXCEPT ![p] =
                                        [pass EXCEPT !.idx = idx,
                                                     !.successCount = successCount,
                                                     !.zip = zip, !.pc = "finalize"]]

\* the status set at lines 426-433
BulkResult(successCount, n) ==
    IF successCount = n
    THEN Status("success", <<"all_zipped", successCount>>)
    ELSE Status("error", <<"some_failed", n - successCount>>)

\* zip.generateAsync resolves: lines 422-433
FinalizeResolve(p) ==
    LET pass == passes[p]
        result == BulkResult(pass.successCount, Len(pass.snap))
    IN  /\ mounted
        /\ p \in DOMAIN passes
        /\ pass.pc = "finalize"
        /\ downloads' = Put(downloads, [kind |-> "zip", name |-> <<"iptc-batch">>,
                                        content |-> pass.zip, pass |-> p])
        /\ bulkStatus' = result
        /\ passes' = [passes EXCEPT ![p] = [pass EXCEPT !.pc = "done",
                                                       !.bulk = result]]
        /\ UNCHANGED <<fileEntries, aiStatus, nextId, calls, aiCalls, lastAi, nEvents, lastEdit,
                       lastSelect, revoked, mounted,
                       writer, annotator>>

\* zip.generateAsync rejects: nothing catches it, handleWriteAll ends there
FinalizeReject(p) ==
    /\ mounted
    /\ p \in DOMAIN passes
    /\ passes[p].pc = "finalize"
    /\ passes' = [passes EXCEPT ![p] = [@ EXCEPT !.pc = "threw"]]
    /\ UNCHANGED <<fileEntries, aiStatus, bulkStatus, nextId, calls, aiCalls, lastAi, downloads,
                   nEvents, lastEdit, lastSelect, revoked, mounted,
                       writer, annotator>>

(***************************************************************************)
(* Annotation: handleAskAI                                                 *)
(***************************************************************************)
\* Array.prototype.join(", ")
RECURSIVE JoinTags(_)
JoinTags(tags) ==
    IF tags = <<>> THEN <<>>
    ELSE IF Len(tags) = 1 THEN Head(tags)
    ELSE Head(tags) \o <<",", " ">> \o JoinTags(Tail(tags))

NonEmpty(text) == text # <<>>

\* a tags merge that adds the tags of the result to the tags of the entry
MergedTagsAppending(entry, match) ==
    LET sanitized == SelectSeq([i \in DOMAIN match.tags |-> trim(match.tags[i])],
                               NonEmpty)
    IN  IF match.tagsKind # "array" \/ Len(sanitized) = 0 THEN entry.tags
        ELSE IF entry.tags = <<>> THEN JoinTags(sanitized)
        ELSE entry.tags \o <<",", " ">> \o JoinTags(sanitized)

\* lines 293-303
MergedTags(entry, match) ==
    IF match.tagsKind = "array"
    THEN LET sanitized == SelectSeq([i \in DOMAIN match.tags |-> trim(match.tags[i])],
                                      NonEmpty)
         IN  IF Len(sanitized) > 0 THEN JoinTags(sanitized) ELSE entry.tags
    ELSE IF match.tagsKind = "string" /\ Len(trim(match.tags)) > 0
    THEN match.tags
    ELSE entry.tags

\* a title merge that keeps what the entry has
MergedTitleKeepingEdits(entry, match) ==
    IF entry.title # <<>> THEN entry.title
    ELSE IF match.hasTitle /\ Len(trim(match.title)) > 0 THEN trim(match.title)
    ELSE entry.title

\* line 305
MergedTitle(entry, match) ==
    IF match.hasTitle /\ Len(trim(match.title)) > 0 THEN trim(match.title) ELSE entry.title

\* lines 273-278: the indices of the results that carry a string id
WithId(results) == {i \in DOMAIN results : results[i].hasId}

ResultIds(results) == {results[i].id : i \in WithId(results)}

\* a lookup that does not compare the id: the last result of the list
ResultForAnyId(results, id) ==
    results[CHOOSE i \in WithId(results) : \A j \in WithId(results) : j <= i]

\* resultMap.get(id): the last result with this id
ResultFor(results, id) ==
    results[CHOOSE i \in WithId(results) :
                /\ results[i].id = id
                /\ \A j \in WithId(results) : results[j].id = id => j <= i]

\* a merge that resets the writeStatus of the entries without a result too
MergeResultsResettingAll(entries, results) ==
    [i \in DOMAIN entries |->
        IF entries[i].id \in ResultIds(results)
        THEN LET match == ResultFor(results, entries[i].id)
             IN  [entries[i] EXCEPT !.title = MergedTitle(entries[i], match),
                                    !.tags = MergedTags(entries[i], match),
                                    !.writeStatus = initialStatus]
        ELSE [entries[i] EXCEPT !.writeStatus = initialStatus]]

\* a merge that keeps only the entries the response has a result for
MergeResultsDroppingUnmatched(entries, results) ==
    LET matched(entry) == entry.id \in ResultIds(results)
        kept == SelectSeq(entries, matched)
    IN  [i \in DOMAIN kept |->
            LET match == ResultFor(results, kept[i].id)
            IN  [kept[i] EXCEPT !.title = MergedTitle(kept[i], match),
                                !.tags = MergedTags(kept[i], match),
                                !.writeStatus = initialStatus]]

\* lines 286-314
MergeResults(entries, results) ==
    [i \in DOMAIN entries |->
        IF entries[i].id \in ResultIds(results)
        THEN LET match == ResultFor(results, entries[i].id)
             IN  [entries[i] EXCEPT !.title = MergedTitle(entries[i], match),
                                    !.tags = MergedTags(entries[i], match),
                                    !.writeStatus = initialStatus]
        ELSE entries[i]]

\* a count of the results that are short of the entries sent
MissingCountByLength(snapshot, results) ==
    IF Len(snapshot) > Len(results) THEN Len(snapshot) - Len(results) ELSE 0

\* line 316
MissingCount(snapshot, results) ==
    Cardinality({i \in DOMAIN snapshot : snapshot[i].id \notin ResultIds(results)})

\* one element of a list of results
AiItem(hasId, id, hasTitle, title, tagsKind, tags) ==
    [hasId |-> hasId, id |-> id, hasTitle |-> hasTitle, title |-> title,
     tagsKind |-> tagsKind, tags |-> tags]

(***************************************************************************)
(* The annotation service: POST /api/gemini/generate                       *)
(***************************************************************************)
\* String.prototype.split(/[\n,]/)
RECURSIVE split(_)
split(s) ==
    LET seps == {i \in DOMAIN s : s[i] \in {",", "\n"}}
    IN  IF seps = {} THEN <<s>>
        ELSE LET i == CHOOSE k \in seps : \A j \in seps : k <= j
             IN  <<SubSeq(s, 1, i - 1)>> \o split(SubSeq(s, i + 1, Len(s)))

\* Array.prototype.slice(0, n)
slice(s, n) == SubSeq(s, 1, IF Len(s) < n THEN Len(s) ELSE n)

\* tags.map(trim).filter(tag => tag.length > 0)
trimmedTags(tags) == SelectSeq([i \in DOMAIN tags |-> trim(tags[i])], NonEmpty)

\* the tags of a candidate without the cap
sanitizeTagsUncapped(item) ==
    IF item.tagsKind = "array" THEN trimmedTags(item.tags)
    ELSE IF item.tagsKind = "string" THEN trimmedTags(split(item.tags))
    ELSE <<>>

\* the tags sanitizeResults keeps of a candidate (route.ts:123-137)
sanitizeTags(item) ==
    slice(IF item.tagsKind = "array" THEN trimmedTags(item.tags)
          ELSE IF item.tagsKind = "string" THEN trimmedTags(split(item.tags))
          ELSE <<>>,
          MAX_TAGS)

\* a filter that asks for an id only
keepsCandidateWithId(id, title, tags) == id # <<>>

\* route.ts:119-121 and 139-141: the candidates that are not skipped
keepsCandidate(id, title, tags) == id # <<>> /\ title # <<>> /\ tags # <<>>

\* sanitizeResults over the list the provider returned (route.ts:99-147)
RECURSIVE sanitizeResults(_)
sanitizeResults(list) ==
    IF list = <<>> THEN <<>>
    ELSE LET item == Head(list)
             id == IF item.hasId THEN trim(item.id) ELSE <<>>
             title == IF item.hasTitle THEN trim(item.title) ELSE <<>>
             tags == sanitizeTags(item)
         IN  IF ~keepsCandidate(id, title, tags)
             THEN sanitizeResults(Tail(list))
             ELSE <<AiItem(TRUE, id, TRUE, title, "array", tags)>>
                  \o sanitizeResults(Tail(list))

\* what the provider may return for one image: an id and a title to trim with
\* a list of tags (one of them blank, more of them than MAX_TAGS), or a title
\* with the tags as one delimited string
RawOne(id) == AiItem(TRUE, <<" ">> \o id \o <<"\n">>, TRUE, <<" ", "A">>, "array",
                     << <<"k", " ">>, <<" ">>, <<"m">>, <<"n">> >>)
RawTwo(id) == AiItem(TRUE, id, TRUE, <<"B">>, "string",
                     <<"s", ",", "\n", " ", "t", ",", "u">>)
\* a candidate the service drops: its title is blank
RawBlank(id) == AiItem(TRUE, id, TRUE, <<" ">>, "array", << <<"k">> >>)

\* per image: no result, one result, or two results in either order
RawFor(id) ==
    { <<>>, <<RawOne(id)>>, <<RawTwo(id)>>, <<RawBlank(id)>>,
      <<RawOne(id), RawTwo(id)>>, <<RawTwo(id), RawOne(id)>> }

\* the lists the provider may return for the images of a request
RECURSIVE RawLists(_)
RawLists(meta) ==
    IF meta = <<>> THEN {<<>>}
    ELSE {one \o rest : one \in RawFor(Head(meta).id), rest \in RawLists(Tail(meta))}

\* a response, as the client sees it
Response(kind, hasError, error, results) ==
    [kind |-> kind, hasError |-> hasError, error |-> error, results |-> results]

\* the responses of POST for a request (route.ts:149-312): a list of more than
\* MAX_FILES files is refused before the provider is called; the provider
\* fails, or what it returned is sanitized and sent when any of it is left
POST(req) ==
    IF Len(req.files) > MAX_FILES
    THEN { Response("not_ok", TRUE, <<"too_many_files">>, <<>>) }
    ELSE { Response("not_ok", TRUE, <<"quota">>, <<>>) }
         \cup { IF sanitizeResults(raw) = <<>>
                THEN Response("not_ok", TRUE, <<"no_valid_results">>, <<>>)
                ELSE Response("ok", FALSE, <<>>, sanitizeResults(raw)) :
                raw \in RawLists(req.meta) }

\* how a request to /api/gemini/generate can end, as the client sees it: fetch
\* rejects, the answer is an error page that is no JSON, or the service answers
AiOutcomes(req) ==
    { Response("throws", FALSE, <<>>, <<>>),
      Response("not_ok", FALSE, <<>>, <<>>) }
    \cup POST(req)

\* lines 235-242: the request is built from the fileEntries of the click
AiRequest(entries) ==
    [meta |-> [i \in DOMAIN entries |->
                  [id |-> entries[i].id, name |-> entries[i].file.name]],
     files |-> [i \in DOMAIN entries |-> entries[i].file],
     snapshot |-> entries]

\* the annotate button (disabled while aiStatus is loading or the store is empty)
HandleAskAI ==
    /\ fileEntries # <<>>
    /\ aiStatus.type # "loading"
    /\ UserEvent
    /\ IF Len(fileEntries) > MAX_GEMINI_FILES
       THEN /\ aiStatus' = Status("error", <<"max_gemini_files">>)
            /\ UNCHANGED aiCalls
       ELSE /\ aiCalls' = Put(aiCalls, AiRequest(fileEntries))
            /\ aiStatus' = Status("loading", <<"analysing">>)
    /\ UNCHANGED <<fileEntries, bulkStatus, nextId, calls, passes, downloads, lastEdit,
                   lastSelect, lastAi, revoked, mounted,
                       writer, annotator>>

\* a status that never shows the error string of the service
AiStatusAfterWithGenericError(req, outcome) ==
    IF outcome.kind = "throws" THEN Status("error", <<"request_failed">>)
    ELSE IF outcome.kind = "not_ok" THEN Status("error", <<"generate_failed">>)
    ELSE IF Len(outcome.results) = 0 THEN Status("error", <<"no_results">>)
    ELSE IF ResultIds(outcome.results) = {} THEN Status("error", <<"bad_results">>)
    ELSE IF MissingCount(req.snapshot, outcome.results) > 0
    THEN Status("error", <<"missing", MissingCount(req.snapshot, outcome.results)>>)
    ELSE Status("success", <<"generated">>)

\* the status a response leaves (lines 251-283 and 316-331)
AiStatusAfter(req, outcome) ==
    IF outcome.kind = "throws" THEN Status("error", <<"request_failed">>)
    ELSE IF outcome.kind = "not_ok"
    THEN Status("error", IF outcome.hasError /\ Len(outcome.error) > 0
                         THEN outcome.error
                         ELSE <<"generate_failed">>)
    ELSE IF Len(outcome.results) = 0 THEN Status("error", <<"no_results">>)
    ELSE IF ResultIds(outcome.results) = {} THEN Status("error", <<"bad_results">>)
    ELSE IF MissingCount(req.snapshot, outcome.results) > 0
    THEN Status("error", <<"missing", MissingCount(req.snapshot, outcome.results)>>)
    ELSE Status("success", <<"generated">>)

\* the responses that reach the merge of lines 286-314
Merges(outcome) == outcome.kind = "ok" /\ ResultIds(outcome.results) # {}

\* the response of an annotate request: lines 251-331
AskAIResolve(req, outcome) ==
    /\ mounted
    /\ BagIn(req, aiCalls)
    /\ aiCalls' = Take(aiCalls, req)
    /\ UNCHANGED <<bulkStatus, nextId, calls, passes, downloads, nEvents, lastEdit,
                   lastSelect, revoked, mounted,
                       writer, annotator>>
    /\ aiStatus' = AiStatusAfter(req, outcome)
    /\ fileEntries' = IF Merges(outcome)
                      THEN MergeResults(fileEntries, outcome.results)
                      ELSE fileEntries
    /\ lastAi' = [kind |-> IF Merges(outcome) THEN "merged" ELSE "failed",
                  req |-> req, outcome |-> outcome, before |-> fileEntries]

(***************************************************************************)
(* The program                                                             *)
(***************************************************************************)
\* the FileLists the user selects: one file, an unsupported file, a list with
\* an unsupported file, and a list that holds one signature twice and more
\* signatures than the store has room for
Selections ==
    { <<FileA>>, <<FileX>>, <<FileA, FileB, FileX>>,
      <<FileA, FileA2, FileAPng, FileB, FileC>> }

Next ==
    \/ \E files \in Selections : HandleFileChange(files)
    \/ \E id \in Ids(fileEntries), value \in EditTitles : HandleTitleChange(id, value)
    \/ \E id \in Ids(fileEntries), value \in EditTags : HandleTagsChange(id, value)
    \/ HandleRemoveAll
    \/ \E id \in Ids(fileEntries), ranEagerly \in BOOLEAN : HandleRemoveEntry(id, ranEagerly)
    \/ \E id \in Ids(fileEntries) : HandleWriteMetadata(id)
    \/ \E call \in BagToSet(calls), outcome \in WriteOutcomes : WriteResolve(call, outcome)
    \/ HandleWriteAll
    \/ \E call \in BagToSet(calls), outcome \in WriteOutcomes :
            PassWriteResolve(call, outcome)
    \/ \E p \in DOMAIN passes : FinalizeResolve(p)
    \/ \E p \in DOMAIN passes : FinalizeReject(p)
    \/ HandleAskAI
    \/ \E req \in BagToSet(aiCalls) : \E outcome \in AiOutcomes(req) :
            AskAIResolve(req, outcome)
    \/ Teardown

Spec == Init /\ [][Next]_vars

(***************************************************************************)
(* Properties                                                              *)
(***************************************************************************)
\* the writer requests a pass has in flight
CallsOf(p) == {c \in BagToSet(calls) : c.pass = p}

\* the requests issued, the requests resolved by a step
Issued == {c \in BagToSet(calls') : CopiesIn(c, calls') > CopiesIn(c, calls)}
Resolved == {c \in BagToSet(calls) : CopiesIn(c, calls') < CopiesIn(c, calls)}

\* the passes that have ended, by returning or by throwing
Ended(p) == passes[p].pc \in {"done", "threw"}

\* the archives downloaded for a pass
ArchivesOf(p) == {d \in BagToSet(downloads) : d.kind = "zip" /\ d.pass = p}

BigSelection == <<FileA, FileA2, FileAPng, FileB, FileC>>

\* C1: at no time are two calls to the external metadata writer in flight.
C1_OneWriterCallInFlight == BagCardinality(calls) <= 1

\* C2: a batch pass started on N entries issues exactly N writer calls, one per
\* entry in store order, each only after the one before it has resolved, and a
\* failed call does not stop the calls after it: at any time the pass has
\* called the writer for the first idx entries of its pass, in order, it has a
\* call in flight (one, for the last of them) exactly while it waits, and it
\* ends only after the N-th call.
C2_PassCallsEachEntryInOrder ==
    \A p \in DOMAIN passes :
        LET pass == passes[p]
            n == Len(pass.snap)
        IN  /\ Len(pass.issuedFor) <= n
            /\ \A i \in DOMAIN pass.issuedFor : pass.issuedFor[i] = pass.snap[i].id
            /\ IF pass.pc = "await"
               THEN /\ Cardinality(CallsOf(p)) = 1
                    /\ \A c \in CallsOf(p) :
                          /\ CopiesIn(c, calls) = 1
                          /\ c.id = pass.issuedFor[Len(pass.issuedFor)]
               ELSE /\ CallsOf(p) = {}
                    /\ Len(pass.issuedFor) = n

\* C2's case: a pass of three entries has ended, the call for its first entry
\* failed and a later one succeeded.
C2_Witness ==
    \E p \in DOMAIN passes :
        /\ Ended(p)
        /\ Len(passes[p].snap) = 3
        /\ Len(passes[p].issuedFor) = 3
        /\ passes[p].successCount >= 1
        /\ passes[p].snap[1].id \in Ids(fileEntries)
        /\ Find(fileEntries, passes[p].snap[1].id).writeStatus.type = "error"

\* C3: if M of the N entries of a pass are written successfully with 0 < M < N,
\* the archive that is downloaded holds exactly M files and the bulk status
\* reports N - M failures.
C3_PartialArchiveHoldsEverySuccess ==
    \A p \in DOMAIN passes :
        LET m == passes[p].successCount
            n == Len(passes[p].snap)
        IN  (passes[p].pc = "done" /\ 0 < m /\ m < n) =>
                /\ \A d \in ArchivesOf(p) : Cardinality(d.content) = m
                /\ passes[p].bulk = Status("error", <<"some_failed", n - m>>)

\* C4: if no entry of a pass is written successfully no archive is downloaded
\* and the bulk status ends as error; if at least one is, exactly one archive
\* download is triggered for the pass.
C4_ArchiveIffSomeSuccess ==
    \A p \in DOMAIN passes :
        Ended(p) =>
            IF passes[p].successCount = 0
            THEN ArchivesOf(p) = {} /\ passes[p].bulk.type = "error"
            ELSE /\ Cardinality(ArchivesOf(p)) = 1
                 /\ \A d \in ArchivesOf(p) : CopiesIn(d, downloads) = 1

\* C5: at the end of a pass the bulk status is success if and only if every
\* entry of the pass was written successfully, and error in every other case.
C5_BulkSuccessIffAllWritten ==
    \A p \in DOMAIN passes :
        Ended(p) =>
            IF passes[p].successCount = Len(passes[p].snap)
            THEN passes[p].bulk.type = "success"
            ELSE passes[p].bulk.type = "error"

\* C6: the number of entries in the store never exceeds MAX_GEMINI_FILES.
C6_StoreWithinCapacity == Len(fileEntries) <= MAX_GEMINI_FILES

\* C6's case: a selection with more new signatures than the store had room for
\* was handled, and filled the store.
C6_Witness ==
    /\ lastSelect.files = BigSelection
    /\ lastSelect.before + 4 > MAX_GEMINI_FILES
    /\ lastSelect.admitted = MAX_GEMINI_FILES - lastSelect.before
    /\ Len(fileEntries) = MAX_GEMINI_FILES

\* C7: no two entries of the store have the same signature, that is the same
\* name, size and modification time.
C7_SignaturesUnique ==
    \A i, j \in DOMAIN fileEntries :
        i # j =>
            /\ fileEntries[i].signature # fileEntries[j].signature
            /\ <<fileEntries[i].file.name, fileEntries[i].file.size,
                 fileEntries[i].file.lastModified>> #
               <<fileEntries[j].file.name, fileEntries[j].file.size,
                 fileEntries[j].file.lastModified>>

\* C7's case: the last selection held two files of one signature (FileA and
\* FileA2) and the store holds one of them.
C7_Witness ==
    /\ lastSelect.files = BigSelection
    /\ lastSelect.admitted > 0
    /\ \E i \in DOMAIN fileEntries : fileEntries[i].file = FileA
    /\ \A i \in DOMAIN fileEntries : fileEntries[i].file # FileA2

\* C8: every writer call and every annotate call is built from the store as it
\* is when the call is issued: the entry of the call is in the store and the
\* call carries that entry's file, title and tags.
C8_CallsBuiltFromCurrentStore ==
    [][/\ \A c \in Issued :
            /\ c.id \in Ids(fileEntries')
            /\ c.file = Find(fileEntries', c.id).file
            /\ c.title = Find(fileEntries', c.id).title
            /\ c.tags = Find(fileEntries', c.id).tags
       /\ \A r \in BagToSet(aiCalls') :
            CopiesIn(r, aiCalls') > CopiesIn(r, aiCalls) => r = AiRequest(fileEntries)
      ]_vars

\* C9: editing the title or the tags of an entry sets that entry's writeStatus
\* to idle, whatever it was before: a user event that changes the title or the
\* tags of an entry leaves the entry idle.
C9_EditResetsWriteStatus ==
    [][nEvents' # nEvents =>
        \A i \in DOMAIN fileEntries \cap DOMAIN fileEntries' :
            ( /\ fileEntries'[i].id = fileEntries[i].id
              /\ \/ fileEntries'[i].title # fileEntries[i].title
                 \/ fileEntries'[i].tags # fileEntries[i].tags )
            => fileEntries'[i].writeStatus = initialStatus
      ]_vars

\* C9's case: an entry whose write had succeeded was edited.
C9_Witness ==
    /\ lastEdit = "success"
    /\ \E i \in DOMAIN fileEntries :
          /\ fileEntries[i].writeStatus = initialStatus
          /\ fileEntries[i].title # <<>> \/ fileEntries[i].tags # <<>>

\* C10: a stale write result never survives an edit: an entry in success or
\* error has the title and tags that were sent in the write that produced that
\* status. Stated on steps: a write that ends and leaves its entry in success
\* or error finds the entry with the title and tags it sent, and a step that
\* changes the title or the tags of an entry does not leave it in success or
\* error.
C10_WriteResultMatchesEntry ==
    [][/\ \A c \in Resolved :
            c.id \in Ids(fileEntries') =>
                LET entry == Find(fileEntries', c.id)
                IN  entry.writeStatus.type \in {"success", "error"} =>
                        entry.title = c.title /\ entry.tags = c.tags
       /\ \A id \in Ids(fileEntries) \cap Ids(fileEntries') :
            LET before == Find(fileEntries, id)
                after == Find(fileEntries', id)
            IN  (after.title # before.title \/ after.tags # before.tags) =>
                    after.writeStatus.type \notin {"success", "error"}
      ]_vars

\* the ids a request was sent for
SentIds(req) == {req.meta[i].id : i \in DOMAIN req.meta}

\* the result of a response that the merge uses for an id: the last one
LastResult(results, id) ==
    LET at == {j \in DOMAIN results : results[j].hasId /\ results[j].id = id}
    IN  results[CHOOSE j \in at : \A k \in at : k <= j]

\* the store is as the last annotate response left it
JustAnswered ==
    /\ lastAi.kind # "none"
    /\ fileEntries = IF lastAi.kind = "merged"
                     THEN MergeResults(lastAi.before, lastAi.outcome.results)
                     ELSE lastAi.before

\* C11: when an annotation response is merged, an entry whose id has no result
\* in the response is left as it was, and no non-empty title or tags of any
\* entry is replaced by an empty value.
C11_MergeKeepsUnmatchedAndNeverClears ==
    [][\A req \in BagToSet(aiCalls) : \A outcome \in AiOutcomes(req) :
          AskAIResolve(req, outcome) =>
              /\ DOMAIN fileEntries' = DOMAIN fileEntries
              /\ \A i \in DOMAIN fileEntries :
                    /\ fileEntries[i].id \notin ResultIds(outcome.results)
                          => fileEntries'[i] = fileEntries[i]
                    /\ fileEntries[i].title # <<>> => fileEntries'[i].title # <<>>
                    /\ fileEntries[i].tags # <<>> => fileEntries'[i].tags # <<>>
      ]_vars

\* C11's case: a response was merged, it had no result for an entry with a
\* title and a write status of its own, and that entry is as it was.
C11_Witness ==
    /\ JustAnswered
    /\ lastAi.kind = "merged"
    /\ \E i \in DOMAIN fileEntries :
          /\ fileEntries[i].id \notin ResultIds(lastAi.outcome.results)
          /\ fileEntries[i].title # <<>>
          /\ fileEntries[i] = lastAi.before[i]
    /\ \E i \in DOMAIN fileEntries :
          /\ fileEntries[i].id \in ResultIds(lastAi.outcome.results)
          /\ fileEntries[i] # lastAi.before[i]

\* C12: after an annotation response was merged, the writeStatus of every
\* entry of the store is idle, of the entries that matched a result and of the
\* entries that were left untouched.
C12_MergeLeavesEveryEntryIdle ==
    [][\A req \in BagToSet(aiCalls) : \A outcome \in AiOutcomes(req) :
          (AskAIResolve(req, outcome) /\ Merges(outcome)) =>
              \A i \in DOMAIN fileEntries' :
                  fileEntries'[i].writeStatus = initialStatus
      ]_vars

\* C13: when a response has results for some but not all of the entries sent,
\* the entries with a result take its title and tags, the others keep theirs,
\* and the AI status reports the number of entries sent that have no result.
C13_PartialCoverage ==
    [][\A req \in BagToSet(aiCalls) : \A outcome \in AiOutcomes(req) :
          LET got == ResultIds(outcome.results)
              missing == SentIds(req) \ got
          IN  ( /\ AskAIResolve(req, outcome)
                /\ outcome.kind = "ok"
                /\ got \cap SentIds(req) # {}
                /\ missing # {} ) =>
                  /\ aiStatus'.message = <<"missing", Cardinality(missing)>>
                  /\ \A i \in DOMAIN fileEntries :
                        IF fileEntries[i].id \in got
                        THEN LET r == LastResult(outcome.results, fileEntries[i].id)
                             IN  /\ fileEntries'[i].title = r.title
                                 /\ fileEntries'[i].tags = JoinTags(r.tags)
                        ELSE /\ fileEntries'[i].title = fileEntries[i].title
                             /\ fileEntries'[i].tags = fileEntries[i].tags
      ]_vars

\* C13's case: two entries were sent, the response had results for one of them
\* only, and the status reports one entry without a result.
C13_Witness ==
    /\ JustAnswered
    /\ lastAi.kind = "merged"
    /\ Len(lastAi.req.meta) = 2
    /\ Cardinality(SentIds(lastAi.req) \ ResultIds(lastAi.outcome.results)) = 1
    /\ aiStatus = Status("error", <<"missing", 1>>)
    /\ \E i \in DOMAIN fileEntries :
          /\ fileEntries[i].id \in ResultIds(lastAi.outcome.results)
          /\ fileEntries[i].title # lastAi.before[i].title

\* C14: an entry that was edited while the annotate request was in flight ends
\* with the title and the tags of the response (the response carries non-empty
\* values for every entry it has a result for).
C14_ResponseOverwritesEdit ==
    [][\A req \in BagToSet(aiCalls) : \A outcome \in AiOutcomes(req) :
          (AskAIResolve(req, outcome) /\ Merges(outcome)) =>
              \A i \in DOMAIN fileEntries :
                  LET id == fileEntries[i].id
                  IN  ( /\ id \in ResultIds(outcome.results)
                        /\ id \in Ids(req.snapshot)
                        /\ \/ fileEntries[i].title # Find(req.snapshot, id).title
                           \/ fileEntries[i].tags # Find(req.snapshot, id).tags ) =>
                          LET r == LastResult(outcome.results, id)
                          IN  /\ r.title # <<>> /\ r.tags # <<>>
                              /\ fileEntries'[i].title = r.title
                              /\ fileEntries'[i].tags = JoinTags(r.tags)
      ]_vars

\* C14's case: a title typed while the request was in flight was replaced by
\* the title of the response.
C14_Witness ==
    /\ JustAnswered
    /\ lastAi.kind = "merged"
    /\ \E i \in DOMAIN fileEntries :
          LET id == fileEntries[i].id
          IN  /\ id \in ResultIds(lastAi.outcome.results)
              /\ id \in Ids(lastAi.req.snapshot)
              /\ lastAi.before[i].title = <<"T">>
              /\ Find(lastAi.req.snapshot, id).title = <<>>
              /\ fileEntries[i].title = LastResult(lastAi.outcome.results, id).title
              /\ fileEntries[i].title # <<"T">>

\* C15: annotating more entries than the annotation service takes in one
\* request (MAX_FILES) sets an error on the AI status and sends no request.
C15_TooManyEntriesRefusedLocally ==
    [][(HandleAskAI /\ Len(fileEntries) > MAX_FILES) =>
          /\ aiCalls' = aiCalls
          /\ aiStatus'.type = "error"
      ]_vars

\* the messages handleAskAI has of its own
GenericAiErrors ==
    { <<"request_failed">>, <<"generate_failed">>, <<"no_results">>, <<"bad_results">> }

\* C16: when an annotation call fails (fetch rejects, the response is not ok,
\* its body does not parse, it has no results or none with an id) the AI status
\* becomes error, with the error string of the service when it sent one and a
\* message of the client otherwise, and no entry is changed.
C16_FailedAnnotationChangesNoEntry ==
    [][\A req \in BagToSet(aiCalls) : \A outcome \in AiOutcomes(req) :
          (AskAIResolve(req, outcome) /\ ~Merges(outcome)) =>
              /\ fileEntries' = fileEntries
              /\ aiStatus'.type = "error"
              /\ IF outcome.kind = "not_ok" /\ outcome.hasError /\ outcome.error # <<>>
                 THEN aiStatus'.message = outcome.error
                 ELSE aiStatus'.message \in GenericAiErrors
      ]_vars

\* C16's case: the service refused a request with an error string; the status
\* shows it and the store, whose entry has a title, is as it was.
C16_Witness ==
    /\ JustAnswered
    /\ lastAi.kind = "failed"
    /\ lastAi.outcome.hasError
    /\ aiStatus = Status("error", lastAi.outcome.error)
    /\ \E i \in DOMAIN fileEntries : fileEntries[i].title # <<>>

\* the tags the provider gave a candidate: the trimmed, non-empty elements of
\* its list or pieces of its delimited string
RawTags(item) ==
    LET pieces == IF item.tagsKind = "array" THEN item.tags ELSE split(item.tags)
    IN  {trim(pieces[i]) : i \in DOMAIN pieces} \ {<<>>}

\* C17: the tags of a result, a list of strings or one delimited string, are
\* stored on the entry as the join of at most MAX_TAGS trimmed, non-empty tags
\* of that result.
C17_StoredTagsAreCappedJoin ==
    [][\A req \in BagToSet(aiCalls) : \A outcome \in AiOutcomes(req) :
          (AskAIResolve(req, outcome) /\ Merges(outcome)) =>
              \A raw \in RawLists(req.meta) :
                  sanitizeResults(raw) = outcome.results =>
                      \A i \in DOMAIN fileEntries :
                          fileEntries[i].id \in ResultIds(outcome.results) =>
                              \E j \in DOMAIN raw, n \in 1..MAX_TAGS :
                                  /\ trim(raw[j].id) = fileEntries[i].id
                                  /\ \E t \in [1..n -> RawTags(raw[j])] :
                                        fileEntries'[i].tags = JoinTags(t)
      ]_vars

\* C17's case: one response gave an entry more than MAX_TAGS tags as a list
\* and another entry more than MAX_TAGS tags as one string.
C17_Witness ==
    /\ JustAnswered
    /\ lastAi.kind = "merged"
    /\ \E i \in DOMAIN fileEntries : fileEntries[i].tags = <<"k", ",", " ", "m">>
    /\ \E i \in DOMAIN fileEntries : fileEntries[i].tags = <<"s", ",", " ", "t">>

\* C18: annotation merge is idempotent: merging a response into the store it
\* was just merged into leaves every entry as it is.
C18_MergeIdempotent ==
    [][\A req \in BagToSet(aiCalls) : \A outcome \in AiOutcomes(req) :
          (AskAIResolve(req, outcome) /\ Merges(outcome)) =>
              MergeResults(fileEntries', outcome.results) = fileEntries'
      ]_vars

\* C18's case: a response was merged and changed an entry that had tags.
C18_Witness ==
    /\ JustAnswered
    /\ lastAi.kind = "merged"
    /\ \E i \in DOMAIN fileEntries :
          /\ lastAi.before[i].tags # <<>>
          /\ fileEntries[i].tags # lastAi.before[i].tags

\* the results the service can send for the entries of the store
ResultsFor(entries) ==
    UNION { {sanitizeResults(<<RawOne(id)>>)[1], sanitizeResults(<<RawTwo(id)>>)[1]} :
            id \in Ids(entries) }

\* merging one result after the other, in one response or in two
InOneResponse(entries, r1, r2) == MergeResults(entries, <<r1, r2>>)
InTwoResponses(entries, r1, r2) == MergeResults(MergeResults(entries, <<r1>>), <<r2>>)

\* C19 as it stands: for any two results, of one response or of two, applying
\* them to the store in either order yields the same entries.
C19_AnyOrderSameEntries ==
    \A r1, r2 \in ResultsFor(fileEntries) :
        /\ InOneResponse(fileEntries, r1, r2) = InOneResponse(fileEntries, r2, r1)
        /\ InTwoResponses(fileEntries, r1, r2) = InTwoResponses(fileEntries, r2, r1)

\* C19 amended: for any two results with different ids, of one response or of
\* two, applying them to the store in either order yields the same entries.
C19_OrderOfDifferentIdsSameEntries ==
    \A r1, r2 \in ResultsFor(fileEntries) :
        r1.id # r2.id =>
            /\ InOneResponse(fileEntries, r1, r2) = InOneResponse(fileEntries, r2, r1)
            /\ InTwoResponses(fileEntries, r1, r2) = InTwoResponses(fileEntries, r2, r1)

\* C19's case: one response with results for two entries was merged and
\* changed both.
C19_Witness ==
    /\ JustAnswered
    /\ lastAi.kind = "merged"
    /\ Cardinality(ResultIds(lastAi.outcome.results) \cap Ids(fileEntries)) = 2
    /\ \A i \in DOMAIN fileEntries :
          fileEntries[i].id \in ResultIds(lastAi.outcome.results) =>
              fileEntries[i].title # lastAi.before[i].title

\* C20: a write sets the writeStatus of its entry to loading before its call
\* to the writer is issued, and when the call has resolved, by a response or
\* by an exception, the writeStatus is success or error: the step that issues
\* a call leaves the entry loading, the step that resolves it leaves the entry
\* in success or error.
C20_WriteLoadingThenTerminal ==
    [][/\ \A c \in Issued :
            c.id \in Ids(fileEntries') =>
                Find(fileEntries', c.id).writeStatus.type = "loading"
       /\ \A c \in Resolved :
            c.id \in Ids(fileEntries') =>
                Find(fileEntries', c.id).writeStatus.type \in {"success", "error"}
      ]_vars

\* C20's case: a write ended by an exception and its entry is in error with
\* the message of the exception.
C20_Witness ==
    \E i \in DOMAIN fileEntries :
        fileEntries[i].writeStatus = Status("error", <<"Failed to fetch">>)

\* the messages handleWriteMetadata has of its own
GenericWriteErrors == { <<"write_failed">>, <<"unexpected">> }

\* C21: when the writer answers with a non-success response, the writeStatus
\* of the entry becomes error with the error string of the response body if it
\* has one and the generic message otherwise; the write returns failure to its
\* caller without throwing (a pass counts no success, adds nothing to its
\* archive and goes on), and nothing is downloaded.
C21_RefusedWriteSetsErrorAndNoArtifact ==
    [][\A call \in BagToSet(calls), outcome \in WriteOutcomes :
          ( /\ outcome.kind = "not_ok"
            /\ WriteResolve(call, outcome) \/ PassWriteResolve(call, outcome) ) =>
              /\ call.id \in Ids(fileEntries) =>
                    Find(fileEntries', call.id).writeStatus =
                        Status("error", IF outcome.hasError THEN outcome.error
                                        ELSE <<"write_failed">>)
              /\ downloads' = downloads
              /\ call.pass # 0 =>
                    /\ passes'[call.pass].zip = passes[call.pass].zip
                    /\ passes'[call.pass].successCount = passes[call.pass].successCount
                    /\ passes'[call.pass].pc \in {"await", "finalize", "done"}
      ]_vars

\* C21's case: a pass over two entries has ended; the writer wrote the first
\* and refused the second with {error: "disk full"}: the second entry shows
\* that string, the archive holds one file and the bulk status reports one
\* failure.
C21_Witness ==
    \E p \in DOMAIN passes :
        /\ passes[p].pc = "done"
        /\ Len(passes[p].snap) = 2
        /\ Cardinality(passes[p].zip) = 1
        /\ bulkStatus = Status("error", <<"some_failed", 1>>)
        /\ Len(fileEntries) = 2
        /\ fileEntries[1].writeStatus.type = "success"
        /\ fileEntries[2].writeStatus = Status("error", <<"disk full">>)
        /\ \E d \in ArchivesOf(p) : Cardinality(d.content) = 1

\* C22: when the call to the writer raises an exception (fetch rejects, the
\* body cannot be read), the writeStatus of the entry becomes error with a
\* generic message of the client, not the message of the exception.
C22_ExceptionGivesGenericMessage ==
    [][\A call \in BagToSet(calls), outcome \in WriteOutcomes :
          ( /\ outcome.kind = "throws"
            /\ WriteResolve(call, outcome) \/ PassWriteResolve(call, outcome)
            /\ call.id \in Ids(fileEntries) ) =>
              /\ Find(fileEntries', call.id).writeStatus.type = "error"
              /\ Find(fileEntries', call.id).writeStatus.message \in GenericWriteErrors
      ]_vars

\* C23: every started aggregate operation finishes with its aggregate status
\* in success or error, never left in loading, also when the archive cannot be
\* generated: a batch pass that has ended, by returning or by throwing, has
\* left the bulk status in success or error, and the step that ends an
\* annotation call leaves the AI status in success or error.
C23_EndedOperationLeftTerminalStatus ==
    /\ [](\A p \in DOMAIN passes :
            Ended(p) => passes[p].bulk.type \in {"success", "error"})
    /\ [][\A req \in BagToSet(aiCalls) : \A outcome \in AiOutcomes(req) :
            AskAIResolve(req, outcome) => aiStatus'.type \in {"success", "error"}
         ]_vars

Min(a, b) == IF a < b THEN a ELSE b

\* the entries a step adds to the store
AdmittedBy == Len(fileEntries') - Len(fileEntries)

\* C24 as it stands: a single selection of C + k files (C the capacity
\* MAX_GEMINI_FILES) made while the store holds `current` entries admits at
\* most min(k, C - current) entries.
C24_AdmitsAtMostMinOfExcessAndRoom ==
    [][\A files \in Selections :
          (HandleFileChange(files) /\ Len(files) >= MAX_GEMINI_FILES) =>
              AdmittedBy <= Min(Len(files) - MAX_GEMINI_FILES,
                                MAX_GEMINI_FILES - Len(fileEntries))
      ]_vars

\* C24 amended: a single selection of n files made while the store holds
\* `current` entries admits at most min(n, C - current) entries, so a
\* selection of C + k files admits at most C - current.
C24_AdmitsAtMostMinOfSizeAndRoom ==
    [][\A files \in Selections :
          HandleFileChange(files) =>
              /\ AdmittedBy >= 0
              /\ AdmittedBy <= Min(Len(files), MAX_GEMINI_FILES - Len(fileEntries))
      ]_vars

\* C24's case: a selection of more files than the capacity was made while the
\* store held an entry, and it admitted as many entries as the store had room
\* for.
C24_Witness ==
    /\ Len(lastSelect.files) > MAX_GEMINI_FILES
    /\ lastSelect.before > 0
    /\ lastSelect.admitted = MAX_GEMINI_FILES - lastSelect.before
    /\ lastSelect.admitted > 0
    /\ Len(fileEntries) = lastSelect.before + lastSelect.admitted

\* the selection holds a file isSupportedFile refuses
HasUnsupported(files) == \E i \in DOMAIN files : ~isSupportedFile(files[i])

\* C25: when a selection holds a file of unsupported type, that file is not
\* admitted and, once the selection has been handled, the status is the
\* format rejection.
C25_UnsupportedFileReportedAsFormatRejection ==
    [][\A files \in Selections :
          (HandleFileChange(files) /\ HasUnsupported(files)) =>
              /\ \A i \in DOMAIN fileEntries' : isSupportedFile(fileEntries'[i].file)
              /\ aiStatus' = Status("error", <<"unsupported_format">>)
      ]_vars

\* the candidates of a selection: its files of a supported type
Candidates(files) == SelectSeq(files, isSupportedFile)

\* every candidate has the signature of an entry of the store or of an earlier
\* candidate
AllDuplicates(entries, candidates) ==
    \A i \in DOMAIN candidates :
        \/ \E j \in DOMAIN entries : entries[j].signature = getFileSignature(candidates[i])
        \/ \E j \in 1..(i - 1) :
              getFileSignature(candidates[j]) = getFileSignature(candidates[i])

\* what the status of a selection tells of its candidates
SelectionStatusTellsOutcome(files) ==
    LET candidates == Candidates(files)
        full == Len(fileEntries) >= MAX_GEMINI_FILES
    IN  /\ (candidates # <<>> /\ AdmittedBy = Len(candidates)) =>
              aiStatus' = initialStatus
        /\ (candidates # <<>> /\ AdmittedBy = 0 /\ ~full
              /\ AllDuplicates(fileEntries, candidates)) =>
              aiStatus' = Status("error", <<"already_added">>)
        /\ (AdmittedBy = 0 /\ full) => aiStatus' = Status("error", <<"max_files">>)
        /\ (0 < AdmittedBy /\ AdmittedBy < Len(candidates)) =>
              aiStatus' = Status("error", <<"some_skipped">>)

\* C26: the status a selection sets distinguishes its outcome: idle when every
\* candidate is admitted, the duplicate message when nothing is admitted
\* because every candidate is a duplicate, the capacity message when nothing
\* is admitted because the store is full, the skipped message when part of the
\* candidates is admitted; and the capacity message is set only when the store
\* is full.
C26_SelectionStatusDistinguishesOutcome ==
    [][\A files \in Selections :
          HandleFileChange(files) =>
              /\ SelectionStatusTellsOutcome(files)
              /\ aiStatus' = Status("error", <<"max_files">>) =>
                    Len(fileEntries) >= MAX_GEMINI_FILES
      ]_vars

\* the position of an id in a store that holds it
IndexOf(entries, id) == CHOOSE i \in DOMAIN entries : entries[i].id = id

\* the position of a file in a selection that holds it
IndexIn(files, file) == CHOOSE i \in DOMAIN files : files[i] = file

\* the entries of `after` are the entries of `before` that are left, in the
\* order they had, followed by the entries that are new
KeepsOrder(before, after) ==
    \A i, j \in DOMAIN after :
        i < j =>
            /\ after[i].id # after[j].id
            /\ after[j].id \in Ids(before) =>
                  /\ after[i].id \in Ids(before)
                  /\ IndexOf(before, after[i].id) < IndexOf(before, after[j].id)

\* C27: admission is in selection order: the entries a selection admits are
\* appended after the existing ones in the order selected, candidates are
\* admitted until the store reaches the capacity and only then dropped (a
\* candidate that is dropped though it is no duplicate finds the store full and
\* comes after every admitted one), and no step, edit, merge, write or remove,
\* changes the relative order of the entries of the store.
C27_AdmissionAndStoreKeepOrder ==
    [][/\ KeepsOrder(fileEntries, fileEntries')
       /\ \A files \in Selections :
            HandleFileChange(files) =>
                LET old == Len(fileEntries)
                    new == {k \in DOMAIN fileEntries' : k > old}
                    taken == {fileEntries'[k].file : k \in new}
                IN  /\ \A k \in DOMAIN fileEntries : fileEntries'[k] = fileEntries[k]
                    /\ \A k \in new : \E i \in DOMAIN files : files[i] = fileEntries'[k].file
                    /\ \A k, l \in new :
                          k < l => IndexIn(files, fileEntries'[k].file)
                                      < IndexIn(files, fileEntries'[l].file)
                    /\ \A i \in DOMAIN Candidates(files) :
                          LET file == Candidates(files)[i]
                          IN  ( /\ file \notin taken
                                /\ \A j \in 1..(i - 1) :
                                      getFileSignature(Candidates(files)[j])
                                          # getFileSignature(file)
                                /\ \A j \in DOMAIN fileEntries :
                                      fileEntries[j].signature # getFileSignature(file) ) =>
                                  /\ Len(fileEntries') = MAX_GEMINI_FILES
                                  /\ \A f \in taken :
                                        IndexIn(files, f) < IndexIn(files, file)
      ]_vars

\* C27's case: the store held a.jpg; a selection of a.jpg, its double, a.png,
\* b.JPG and c.jpg appended a.png and b.JPG in that order and dropped c.jpg at
\* the capacity.
C27_Witness ==
    /\ lastSelect.files = BigSelection
    /\ lastSelect.before = MAX_GEMINI_FILES - 2
    /\ lastSelect.admitted = 2
    /\ Len(fileEntries) = MAX_GEMINI_FILES
    /\ fileEntries[1].file = FileA
    /\ fileEntries[Len(fileEntries) - 1].file = FileAPng
    /\ fileEntries[Len(fileEntries)].file = FileB
    /\ \A i \in DOMAIN fileEntries : fileEntries[i].file # FileC

\* the preview URLs created so far: one for each id handed out
Created == {createObjectURL(n) : n \in 1..(nextId - 1)}

\* C28: clear deletes every entry, releases the preview of every entry it
\* deletes (one revokeObjectURL for each of them) and sets the AI status and
\* the bulk status to idle.
C28_ClearEmptiesReleasesAndResets ==
    [][HandleRemoveAll =>
          /\ fileEntries' = <<>>
          /\ \A i \in DOMAIN fileEntries :
                CopiesIn(fileEntries[i].previewUrl, revoked')
                    = CopiesIn(fileEntries[i].previewUrl, revoked) + 1
          /\ aiStatus' = initialStatus
          /\ bulkStatus' = initialStatus
      ]_vars

\* C28's case: a selection filled the store and left the skipped message; the
\* next event was the clear: the store is empty, every preview created is
\* released and both statuses are idle.
C28_Witness ==
    /\ mounted
    /\ nEvents = 2
    /\ lastSelect.files = BigSelection
    /\ lastSelect.admitted = MAX_GEMINI_FILES
    /\ fileEntries = <<>>
    /\ \A url \in Created : CopiesIn(url, revoked) = 1
    /\ Cardinality(Created) = MAX_GEMINI_FILES
    /\ aiStatus = initialStatus
    /\ bulkStatus = initialStatus

\* the preview URLs of the entries of the store
Previews(entries) == {entries[i].previewUrl : i \in DOMAIN entries}

\* C29: every preview created at admission is released exactly once, on the
\* removal of its entry, on clear or at teardown: no preview is released
\* twice, none is released while its entry is in the store of the mounted
\* component, every preview whose entry has left the store is released, and
\* after the teardown every preview created is released.
C29_PreviewReleasedExactlyOnce ==
    /\ BagToSet(revoked) \subseteq Created
    /\ Previews(fileEntries) \subseteq Created
    /\ \A url \in Created :
          CopiesIn(url, revoked) =
              IF mounted /\ url \in Previews(fileEntries) THEN 0 ELSE 1

\* C29's case: after the teardown of a store that held entries, one entry
\* having been removed before it, every preview created is released once.
C29_Witness ==
    /\ ~mounted
    /\ Len(fileEntries) >= 2
    /\ Cardinality(Created) > Len(fileEntries)
    /\ \A url \in Created : CopiesIn(url, revoked) = 1

\* C30: a terminal aggregate status does not outlive the entry set it was
\* computed for: a step that changes the set of entries, an admission, a
\* removal or a clear, leaves the bulk status idle if it was success or error,
\* and leaves the AI status idle if it was success or error (an admission may
\* leave the AI status with its own skipped message instead).
C30_EntrySetChangeResetsAggregateStatus ==
    [][Ids(fileEntries') # Ids(fileEntries) =>
          /\ bulkStatus.type \in {"success", "error"} => bulkStatus' = initialStatus
          /\ aiStatus.type \in {"success", "error"} =>
                \/ aiStatus' = initialStatus
                \/ /\ Len(fileEntries') > Len(fileEntries)
                   /\ aiStatus' = Status("error", <<"some_skipped">>)
      ]_vars

\* an entry with its title, tags and writeStatus left out
Identity(entry) ==
    [id |-> entry.id, file |-> entry.file, previewUrl |-> entry.previewUrl,
     signature |-> entry.signature]

\* the two stores hold the same entries in the same order, up to title, tags
\* and writeStatus
SameEntries(before, after) ==
    /\ DOMAIN after = DOMAIN before
    /\ \A i \in DOMAIN before : Identity(after[i]) = Identity(before[i])

\* the steps that edit, merge, start a write or end one
EditMergeOrWriteStep ==
    \/ \E id \in Ids(fileEntries), value \in EditTitles : HandleTitleChange(id, value)
    \/ \E id \in Ids(fileEntries), value \in EditTags : HandleTagsChange(id, value)
    \/ \E id \in Ids(fileEntries) : HandleWriteMetadata(id)
    \/ HandleWriteAll
    \/ \E call \in BagToSet(calls), outcome \in WriteOutcomes :
          WriteResolve(call, outcome) \/ PassWriteResolve(call, outcome)
    \/ \E req \in BagToSet(aiCalls) : \E outcome \in AiOutcomes(req) :
          AskAIResolve(req, outcome)

\* C32: edits, annotation merges and write completions change only the title,
\* the tags and the writeStatus of entries: they add, remove and reorder no
\* entry and change no id, signature, file or preview; a write that ends for
\* an id that is not in the store changes no entry but the one the pass turns
\* to next, and a result for an id that is not in the store changes no entry.
C32_EditMergeWriteKeepEntrySet ==
    [][/\ EditMergeOrWriteStep => SameEntries(fileEntries, fileEntries')
       /\ \A c \in Resolved :
            c.id \notin Ids(fileEntries) =>
                \A i \in DOMAIN fileEntries :
                    \/ fileEntries'[i] = fileEntries[i]
                    \/ \E n \in Issued : n.id = fileEntries[i].id
       /\ \A req \in BagToSet(aiCalls) : \A outcome \in AiOutcomes(req) :
            AskAIResolve(req, outcome) =>
                \A i \in DOMAIN fileEntries :
                    fileEntries[i].id \notin ResultIds(outcome.results) =>
                        fileEntries'[i] = fileEntries[i]
      ]_vars

\* C32's case: a response was merged that had a result for an entry removed
\* while the request was in flight: the store holds the entries it held when
\* the response came, the removed one is not back.
C32_Witness ==
    /\ JustAnswered
    /\ lastAi.kind = "merged"
    /\ ResultIds(lastAi.outcome.results) \ Ids(fileEntries) # {}
    /\ ResultIds(lastAi.outcome.results) \cap Ids(fileEntries) # {}
    /\ SameEntries(lastAi.before, fileEntries)
    /\ Len(lastAi.req.snapshot) = Len(fileEntries) + 1

\* C36: while a writer call for an entry is in flight the writeStatus of that
\* entry is loading, whatever edit or merge happens meanwhile.
C36_InFlightWriteKeepsEntryLoading ==
    \A c \in BagToSet(calls) :
        c.id \in Ids(fileEntries) =>
            Find(fileEntries, c.id).writeStatus.type = "loading"

\* C37: at most one annotation request is in flight at any time, and while
\* one is the AI status is loading, whatever selection, removal or edit
\* happens meanwhile.
C37_OneAnnotateInFlightAndLoading ==
    /\ BagCardinality(aiCalls) <= 1
    /\ aiCalls # EmptyBag => aiStatus.type = "loading"

(***************************************************************************)
(* The metadata write service, step by step: POST /api/iptc/write          *)
(***************************************************************************)
\* a WebP image the browser gave no type for, its name with a blank and two dots
FileW == MkFile(<<"my", " ", "pic", ".", "v2", ".", "webp">>, 3, 1, "", "dW")

\* route.ts:42-70: by the type, then by path.extname of the name
getUploadFormat(file) ==
    LET type == Lower(file.type)
        lower == toLowerCase(file.name)
        d == lastIndexOfDot(lower)
        \* path.extname: from the last dot on, nothing when the name starts with it
        extension == IF d <= 1 THEN <<>> ELSE SubSeq(lower, d + 1, Len(lower))
    IN  IF type = JPEG THEN "jpeg"
        ELSE IF type = PNG THEN "png"
        ELSE IF type \in {"image/webp", "image/x-webp"} THEN "webp"
        ELSE IF extension \in {<<"jpg">>, <<"jpeg">>} THEN "jpeg"
        ELSE IF extension = <<"png">> THEN "png"
        ELSE IF extension = <<"webp">> THEN "webp"
        ELSE "null"

\* String.prototype.split(",")
RECURSIVE splitComma(_)
splitComma(s) ==
    LET seps == {i \in DOMAIN s : s[i] = ","}
    IN  IF seps = {} THEN <<s>>
        ELSE LET i == CHOOSE k \in seps : \A j \in seps : k <= j
             IN  <<SubSeq(s, 1, i - 1)>> \o splitComma(SubSeq(s, i + 1, Len(s)))

\* a payload that keeps a title of blanks
WriterPayloadUntrimmed(req) ==
    LET tagList == IF req.hasTags THEN trimmedTags(splitComma(req.tags)) ELSE <<>>
    IN  [hasTitle |-> req.hasTitle /\ req.title # <<>>,
         title |-> IF req.hasTitle THEN req.title ELSE <<>>,
         hasTags |-> tagList # <<>>, tags |-> tagList]

\* route.ts:91-109: the title when its trimmed text is not empty, the tags
\* when the comma-separated text holds one that is not blank
WriterPayload(req) ==
    LET titleValue == IF req.hasTitle THEN trim(req.title) ELSE <<>>
        tagList == IF req.hasTags THEN trimmedTags(splitComma(req.tags)) ELSE <<>>
    IN  [hasTitle |-> titleValue # <<>>, title |-> titleValue,
         hasTags |-> tagList # <<>>, tags |-> tagList]

\* route.ts:130-140: the tags exiftool is asked to write, as pairs
metadataUpdates(payload) ==
    (IF payload.hasTitle THEN {<<"XMP-dc:Title", payload.title>>} ELSE {})
    \cup (IF payload.hasTags
          THEN {<<"XMP-dc:Subject", payload.tags>>, <<"IPTC:Keywords", payload.tags>>,
                <<"IPTC:CodedCharacterSet", <<"UTF8">> >>}
          ELSE {})

\* path.parse(name).name: the name without its last extension
PathName(name) ==
    LET d == lastIndexOfDot(name)
    IN  IF d <= 1 THEN name ELSE SubSeq(name, 1, d - 1)

\* baseName.replace(/[^a-zA-Z0-9-_]+/g, "_"): each run becomes one "_"
RECURSIVE replaceUnsafe(_)
replaceUnsafe(s) ==
    \* the tokens the class [a-zA-Z0-9-_] does not match
    LET unsafe == {".", "/", " ", ",", "\n"}
    IN  IF s = <<>> THEN <<>>
        ELSE IF Head(s) \notin unsafe THEN <<Head(s)>> \o replaceUnsafe(Tail(s))
        ELSE IF Tail(s) # <<>> /\ s[2] \in unsafe THEN replaceUnsafe(Tail(s))
        ELSE <<"_">> \o replaceUnsafe(Tail(s))

\* route.ts:23-26
sanitizeFilenameForDownload(baseName) ==
    LET safeBase == replaceUnsafe(baseName)
    IN  (IF safeBase = <<>> THEN <<"image">> ELSE safeBase) \o <<"-iptc", ".", "jpg">>

\* the responses of the service
NoResponse ==
    [status |-> 0, contentType |-> "", hasError |-> FALSE, error |-> <<>>,
     filename |-> <<>>, body |-> <<>>]
\* NextResponse.json({error}, {status})
JsonError(status, error) ==
    [status |-> status, contentType |-> "application/json", hasError |-> TRUE,
     error |-> error, filename |-> <<>>, body |-> <<>>]
\* route.ts:158-164
JpegResponse(body, downloadName) ==
    [status |-> 200, contentType |-> JPEG, hasError |-> FALSE, error |-> <<>>,
     filename |-> downloadName, body |-> <<body>>]
\* what the framework answers when POST rejects: 500 and no JSON body
UncaughtResponse ==
    [status |-> 500, contentType |-> "text/plain", hasError |-> FALSE, error |-> <<>>,
     filename |-> <<>>, body |-> <<>>]

\* route.ts:165-167
WriterCatch == JsonError(500, <<"iptc-write-error">>)

\* the requests looked at: the form fields "file", "title" and "tags", each
\* there or not; a title and tags of blanks, and ones to trim
WriterRequests ==
    { [hasFile |-> hasFile, file |-> file, hasTitle |-> hasTitle, title |-> title,
       hasTags |-> hasTags, tags |-> tags] :
        hasFile \in BOOLEAN, file \in {FileA, FileAPng, FileB, FileW, FileX},
        hasTitle \in BOOLEAN, title \in {<<" ">>, <<" ", "T">>},
        hasTags \in BOOLEAN, tags \in {<<",", " ">>, <<"g", ",", " ", "h">>} }

\* POST as it is entered with `req`
WriterStart(req) ==
    [pc |-> "start", req |-> req, uploadFormat |-> "null",
     payload |-> WriterPayload(req), buffer |-> [data |-> "", jpeg |-> FALSE],
     temp |-> "absent", tempContent |-> <<>>, exiftool |-> "none",
     thrown |-> FALSE, unlinkCalled |-> FALSE, faults |-> {},
     result |-> NoResponse, response |-> NoResponse]

WriterInit ==
    /\ ClientInit
    /\ annotator = ServiceIdle
    /\ writer \in {WriterStart(req) : req \in WriterRequests}

\* route.ts:73-109: the two refusals, then the payload
WriterValidate ==
    /\ writer.pc = "start"
    /\ LET req == writer.req
           uploadFormat == getUploadFormat(req.file)
       IN  writer' =
             IF ~req.hasFile
             THEN [writer EXCEPT !.pc = "done",
                                 !.response = JsonError(400, <<"select-image">>)]
             ELSE IF uploadFormat = "null"
             THEN [writer EXCEPT !.pc = "done",
                                 !.response = JsonError(400, <<"unsupported-format">>)]
             ELSE [writer EXCEPT !.pc = "encode", !.uploadFormat = uploadFormat]
    /\ UNCHANGED <<clientVars, annotator>>

\* route.ts:111-116: the bytes of the file, through sharp for PNG and WebP; a
\* rejection of sharp is outside the try block and ends POST with it
WriterEncode(ok) ==
    /\ writer.pc = "encode"
    /\ LET file == writer.req.file
           converts == writer.uploadFormat \in {"png", "webp"}
       IN  /\ ok \/ converts
           /\ writer' =
                IF ~converts
                THEN [writer EXCEPT !.pc = "writeFile",
                                    !.buffer = [data |-> file.data, jpeg |-> FALSE]]
                ELSE IF ok
                THEN [writer EXCEPT !.pc = "writeFile",
                                    !.buffer = [data |-> file.data, jpeg |-> TRUE]]
                ELSE [writer EXCEPT !.pc = "done", !.faults = @ \cup {"sharp"},
                                    !.response = UncaughtResponse]
    /\ UNCHANGED <<clientVars, annotator>>

\* route.ts:128: fs.writeFile; when it rejects the file may have been created
WriterWriteFile(ok, created) ==
    /\ writer.pc = "writeFile"
    /\ ok => created
    /\ writer' =
         IF ok
         THEN [writer EXCEPT
                 !.pc = IF metadataUpdates(writer.payload) # {} THEN "open" ELSE "readFile",
                 !.temp = "present",
                 !.tempContent = <<[image |-> writer.buffer, metadata |-> {}]>>]
         ELSE [writer EXCEPT !.pc = "unlink", !.faults = @ \cup {"writeFile"},
                             !.temp = IF created THEN "present" ELSE "absent",
                             !.result = WriterCatch]
    /\ UNCHANGED <<clientVars, annotator>>

\* route.ts:142-146: the exiftool process is started
WriterExiftoolOpen(ok) ==
    /\ writer.pc = "open"
    /\ writer' =
         IF ok
         THEN [writer EXCEPT !.pc = "writeMetadata", !.exiftool = "open"]
         ELSE [writer EXCEPT !.pc = "unlink", !.faults = @ \cup {"open"},
                             !.result = WriterCatch]
    /\ UNCHANGED <<clientVars, annotator>>

\* route.ts:147-151: writeMetadata with overwrite_original
WriterWriteMetadata(ok) ==
    /\ writer.pc = "writeMetadata"
    /\ writer' =
         IF ok
         THEN [writer EXCEPT
                 !.pc = "close",
                 !.tempContent = <<[image |-> writer.buffer,
                                    metadata |-> metadataUpdates(writer.payload)]>>]
         ELSE [writer EXCEPT !.pc = "close", !.thrown = TRUE,
                             !.faults = @ \cup {"writeMetadata"}]
    /\ UNCHANGED <<clientVars, annotator>>

\* route.ts:151-153: the finally block closes the process; close rejects when
\* the process had ended by itself
WriterExiftoolClose(ok) ==
    /\ writer.pc = "close"
    /\ writer' =
         IF ok /\ ~writer.thrown
         THEN [writer EXCEPT !.pc = "readFile", !.exiftool = "closed"]
         ELSE [writer EXCEPT !.pc = "unlink", !.exiftool = "closed",
                             !.faults = @ \cup (IF ok THEN {} ELSE {"close"}),
                             !.result = WriterCatch]
    /\ UNCHANGED <<clientVars, annotator>>

\* route.ts:156-164
WriterReadFile(ok) ==
    /\ writer.pc = "readFile"
    /\ writer' =
         IF ok
         THEN [writer EXCEPT
                 !.pc = "unlink",
                 !.result = JpegResponse(writer.tempContent[1],
                              sanitizeFilenameForDownload(PathName(writer.req.file.name)))]
         ELSE [writer EXCEPT !.pc = "unlink", !.faults = @ \cup {"readFile"},
                             !.result = WriterCatch]
    /\ UNCHANGED <<clientVars, annotator>>

\* a finally block that leaves the temporary file
TempAfterUnlinkKeeping(temp, ok) == temp

\* fs.unlink(tempFilePath)
TempAfterUnlink(temp, ok) == IF temp = "present" /\ ok THEN "removed" ELSE temp

\* route.ts:168-170: fs.unlink, its rejection swallowed; then the response
WriterUnlink(ok) ==
    /\ writer.pc = "unlink"
    \* there is nothing to unlink: ENOENT
    /\ writer.temp = "absent" => ~ok
    /\ writer' = [writer EXCEPT !.pc = "done", !.unlinkCalled = TRUE,
                                !.temp = TempAfterUnlink(writer.temp, ok),
                                !.faults = @ \cup (IF ok \/ writer.temp = "absent"
                                                   THEN {} ELSE {"unlink"}),
                                !.response = writer.result]
    /\ UNCHANGED <<clientVars, annotator>>

WriterNext ==
    \/ WriterValidate
    \/ \E ok \in BOOLEAN : WriterEncode(ok)
    \/ \E ok \in BOOLEAN, created \in BOOLEAN : WriterWriteFile(ok, created)
    \/ \E ok \in BOOLEAN : WriterExiftoolOpen(ok)
    \/ \E ok \in BOOLEAN : WriterWriteMetadata(ok)
    \/ \E ok \in BOOLEAN : WriterExiftoolClose(ok)
    \/ \E ok \in BOOLEAN : WriterReadFile(ok)
    \/ \E ok \in BOOLEAN : WriterUnlink(ok)

WriterSpec == WriterInit /\ [][WriterNext]_vars

\* C31: every response of the metadata write service is either a 2xx with a
\* binary JPEG and a content-disposition file name, or a JSON body
\* {error: string}, whichever step of the request failed
C31_ResponseIsJpegOrJsonError ==
    writer.pc = "done" =>
        LET r == writer.response
        IN  \/ /\ r.status = 200
               /\ r.contentType = JPEG
               /\ r.body # <<>>
               /\ r.filename # <<>>
            \/ /\ r.status >= 400
               /\ r.contentType = "application/json"
               /\ r.hasError
               /\ r.error # <<>>

IsBlank(text) == \A i \in DOMAIN text : isSpace(text[i])

\* the request has no title but blanks and no tag but blanks
BlankRequest(req) ==
    /\ req.hasTitle => IsBlank(req.title)
    /\ req.hasTags => \A i \in DOMAIN req.tags : req.tags[i] = "," \/ isSpace(req.tags[i])

\* C40: for a request with a blank title and no non-empty tag the exiftool
\* process is never started, and the service answers 200 with the JPEG (the
\* re-encoded one for PNG and WebP) as it was written to the temporary file,
\* unless the file is refused or sharp, fs.writeFile or fs.readFile failed
C40_BlankPayloadSkipsExiftool ==
    BlankRequest(writer.req) =>
        /\ writer.exiftool = "none"
        /\ (/\ writer.pc = "done"
            /\ writer.req.hasFile
            /\ getUploadFormat(writer.req.file) # "null"
            /\ writer.faults \cap {"sharp", "writeFile", "readFile"} = {})
           => /\ writer.response.status = 200
              /\ writer.response.contentType = JPEG
              /\ writer.response.body =
                   <<[image |-> [data |-> writer.req.file.data,
                                 jpeg |-> getUploadFormat(writer.req.file) # "jpeg"],
                      metadata |-> {}]>>

\* a PNG sent with a title of blanks and tags of commas and blanks is answered
\* with its JPEG
C40_Witness ==
    /\ writer.pc = "done"
    /\ writer.req.hasTitle /\ writer.req.hasTags
    /\ BlankRequest(writer.req)
    /\ writer.uploadFormat = "png"
    /\ writer.response.status = 200
    /\ writer.exiftool = "none"

(***************************************************************************)
(* The annotation service, step by step: POST /api/gemini/generate         *)
(***************************************************************************)
\* one item of the manifest the form field "meta" holds
MetaItem(hasId, id, hasName, name) ==
    [hasId |-> hasId, id |-> id, hasName |-> hasName, name |-> name]

\* the field "meta": not sent, a text JSON.parse refuses, or an array
Manifest(kind, items) == [kind |-> kind, items |-> items]

\* part_000:235-242: the manifest the client builds, one {id, name} per file
ClientManifest(files) ==
    Manifest("array", [i \in DOMAIN files |->
                          MetaItem(TRUE, createClientId(i), TRUE, files[i].name)])

\* the manifests of the requests looked at: the one of the client, that one
\* with an item that has no id in front, its first item alone, none, and a
\* text that is no JSON
Manifests(files) ==
    LET client == ClientManifest(files).items
    IN  { Manifest("array", client),
          Manifest("array", <<MetaItem(FALSE, <<>>, TRUE, <<"n">>)>> \o client),
          Manifest("array", SubSeq(client, 1, IF client = <<>> THEN 0 ELSE 1)),
          Manifest("absent", <<>>),
          Manifest("unparsable", <<>>) }

\* route.ts:175-195: the items with a string id, in their order
metaList(meta) ==
    IF meta.kind = "array"
    THEN LET HasStringId(item) == item.hasId
         IN  SelectSeq(meta.items, HasStringId)
    ELSE <<>>

\* `file-${index + 1}`, index counted from 0 in the source and from 1 here
fallbackId(index) == <<"file-", ToString(index)>>

\* route.ts:197-205
Labelled(files, meta) ==
    LET list == metaList(meta)
    IN  [index \in DOMAIN files |->
            [clientId |-> IF index <= Len(list) THEN list[index].id
                          ELSE fallbackId(index),
             originalName |-> IF index <= Len(list) /\ list[index].hasName
                              THEN list[index].name ELSE files[index].name,
             file |-> files[index]]]

\* NextResponse.json({results: sanitized})
ResultsResponse(results) ==
    [status |-> 200, contentType |-> "application/json", hasError |-> FALSE,
     error |-> <<>>, filename |-> <<>>, body |-> results]

\* a validation that looks at the number of files only
AnnotatorRefusalByCountOnly(req) ==
    IF ~req.apiKey THEN JsonError(500, <<"no_api_key">>)
    ELSE IF Len(req.files) = 0 THEN JsonError(400, <<"select-image">>)
    ELSE IF Len(req.files) > MAX_FILES THEN JsonError(400, <<"too_many_files">>)
    ELSE NoResponse

\* route.ts:150-173 and 207-214: the response that refuses the request, or none
AnnotatorRefusal(req) ==
    IF ~req.apiKey THEN JsonError(500, <<"no_api_key">>)
    ELSE IF Len(req.files) = 0 THEN JsonError(400, <<"select-image">>)
    ELSE IF Len(req.files) > MAX_FILES THEN JsonError(400, <<"too_many_files">>)
    ELSE IF \E i \in DOMAIN req.files : ~isSupportedFile(req.files[i])
    THEN JsonError(400, <<"unsupported-format">>)
    ELSE NoResponse

\* the lists of files of the requests looked at: none, one, two, two with one
\* of an unsupported type, and one more than MAX_FILES
AnnotatorFiles ==
    { <<>>, <<FileA>>, <<FileA, FileB>>, <<FileA, FileX>>,
      [i \in 1..(MAX_FILES + 1) |-> FileA] }

\* a request: GEMINI_API_KEY is set or not, the files and the manifest
AnnotatorRequests ==
    { [apiKey |-> apiKey, files |-> files, meta |-> meta] :
        apiKey \in BOOLEAN, files \in AnnotatorFiles,
        meta \in UNION {Manifests(files) : files \in AnnotatorFiles} }

\* POST as it is entered with `req`
AnnotatorStart(req) ==
    [pc |-> "start", req |-> req, fileEntries |-> <<>>, index |-> 1,
     uploadedFileIds |-> <<>>, preparedFiles |-> <<>>,
     provider |-> {}, deleteRequested |-> {}, failedDeletes |-> {},
     faults |-> {}, generated |-> FALSE, raw |-> <<>>,
     result |-> NoResponse, response |-> NoResponse]

AnnotatorInit ==
    /\ ClientInit
    /\ writer = ServiceIdle
    /\ annotator \in {AnnotatorStart(req) : req \in AnnotatorRequests}

\* route.ts:150-221: the refusals and the labels of the files
AnnotatorValidate ==
    /\ annotator.pc = "start"
    /\ LET req == annotator.req
           refusal == AnnotatorRefusal(req)
           \* line 197 is reached once the number of files was accepted
           entries == IF req.apiKey /\ Len(req.files) \in 1..MAX_FILES
                      THEN Labelled(req.files, req.meta) ELSE <<>>
       IN  annotator' =
             IF refusal # NoResponse
             THEN [annotator EXCEPT !.pc = "done", !.fileEntries = entries,
                                    !.response = refusal]
             ELSE [annotator EXCEPT !.pc = "upload", !.fileEntries = entries]
    /\ UNCHANGED <<clientVars, writer>>

\* the message of the error the catch block answers with (route.ts:298-304)
AnnotatorCatch(message) == JsonError(500, message)

\* route.ts:232-239: the next file is uploaded and its name kept
AnnotatorUpload(ok) ==
    /\ annotator.pc = "upload"
    \* uploadResponse.file.name, the name the provider gives the file
    /\ LET name == <<"files/", ToString(annotator.index)>>
       IN  annotator' =
             IF ok
             THEN [annotator EXCEPT !.pc = "activate",
                                    !.uploadedFileIds = Append(@, name),
                                    !.provider = @ \cup {name}]
             ELSE [annotator EXCEPT !.pc = "cleanup", !.faults = @ \cup {"upload"},
                                    !.result = AnnotatorCatch(<<"upload_failed">>)]
    /\ UNCHANGED <<clientVars, writer>>

\* route.ts:240-251: the file becomes active and the loop goes on, or
\* waitForFileActivation (route.ts:71-95) throws: the provider reports FAILED,
\* the 20 s are over, or getFile rejects
AnnotatorActivate(outcome) ==
    /\ annotator.pc = "activate"
    /\ annotator' =
         IF outcome = "active"
         THEN [annotator EXCEPT
                 !.pc = IF annotator.index < Len(annotator.fileEntries)
                        THEN "upload" ELSE "generate",
                 !.index = @ + 1,
                 !.preparedFiles =
                     Append(@, annotator.fileEntries[annotator.index].clientId)]
         ELSE [annotator EXCEPT
                 !.pc = "cleanup", !.faults = @ \cup {"activation"},
                 !.result = AnnotatorCatch(
                     IF outcome = "failed" THEN <<"processing_failed">>
                     ELSE IF outcome = "timeout" THEN <<"processing_timeout">>
                     ELSE <<"get_file_failed">>)]
    /\ UNCHANGED <<clientVars, writer>>

\* candidates the filter has to drop: an id of blanks, no id at all
RawBlankId == AiItem(TRUE, <<" ">>, TRUE, <<"A">>, "array", << <<"k">> >>)
RawNoId == AiItem(FALSE, <<>>, TRUE, <<"A">>, "array", << <<"k">> >>)

\* how model.generateContent ends for the prepared files: it throws, it has
\* no response, its text is no JSON, or its text is a list of candidates
GenerateOutcomes(prepared) ==
    { [kind |-> "throws", list |-> <<>>],
      [kind |-> "no_response", list |-> <<>>],
      [kind |-> "unparsable", list |-> <<>>] }
    \cup { [kind |-> "json", list |-> list] :
             list \in RawLists([i \in DOMAIN prepared |-> [id |-> prepared[i]]])
                      \cup { <<RawBlankId>>, <<RawNoId>> }
                      \cup { <<RawBlankId, RawOne(prepared[i])>> : i \in DOMAIN prepared } }

\* route.ts:253-304: the prompt, the generation and what is made of its text
AnnotatorGenerate(outcome) ==
    /\ annotator.pc = "generate"
    /\ LET sanitized == sanitizeResults(outcome.list)
       IN  annotator' =
             IF outcome.kind = "throws"
             THEN [annotator EXCEPT !.pc = "cleanup", !.faults = @ \cup {"generate"},
                                    !.result = AnnotatorCatch(<<"quota">>)]
             ELSE IF outcome.kind = "no_response"
             THEN [annotator EXCEPT !.pc = "cleanup", !.faults = @ \cup {"generate"},
                                    !.result = AnnotatorCatch(<<"no_response">>)]
             ELSE IF outcome.kind = "unparsable"
             THEN [annotator EXCEPT !.pc = "cleanup", !.faults = @ \cup {"parse"},
                                    !.result = AnnotatorCatch(<<"unexpected_token">>)]
             ELSE IF sanitized = <<>>
             THEN [annotator EXCEPT !.pc = "cleanup", !.generated = TRUE,
                                    !.raw = outcome.list,
                                    !.result = AnnotatorCatch(<<"no_valid_results">>)]
             ELSE [annotator EXCEPT !.pc = "cleanup", !.generated = TRUE,
                                    !.raw = outcome.list,
                                    !.result = ResultsResponse(sanitized)]
    /\ UNCHANGED <<clientVars, writer>>

Range(seq) == {seq[i] : i \in DOMAIN seq}

\* a finally block that deletes the files that became active only
FilesToDeleteOfPrepared(uploadedFileIds, preparedFiles) ==
    {uploadedFileIds[i] : i \in DOMAIN preparedFiles}

\* route.ts:306-310: every name in uploadedFileIds
FilesToDelete(uploadedFileIds, preparedFiles) == Range(uploadedFileIds)

\* route.ts:305-311: deleteFile for the uploaded files, a rejection swallowed;
\* then the response
AnnotatorCleanup(failed) ==
    /\ annotator.pc = "cleanup"
    /\ LET requested == FilesToDelete(annotator.uploadedFileIds,
                                      annotator.preparedFiles)
       IN  /\ failed \subseteq requested
           /\ annotator' = [annotator EXCEPT
                              !.pc = "done",
                              !.deleteRequested = requested,
                              !.failedDeletes = failed,
                              !.provider = @ \ (requested \ failed),
                              !.response = annotator.result]
    /\ UNCHANGED <<clientVars, writer>>

AnnotatorNext ==
    \/ AnnotatorValidate
    \/ \E ok \in BOOLEAN : AnnotatorUpload(ok)
    \/ \E outcome \in {"active", "failed", "timeout", "throws"} :
          AnnotatorActivate(outcome)
    \/ \E outcome \in GenerateOutcomes(annotator.preparedFiles) :
          AnnotatorGenerate(outcome)
    \/ \E failed \in SUBSET Range(annotator.uploadedFileIds) : AnnotatorCleanup(failed)

AnnotatorSpec == AnnotatorInit /\ [][AnnotatorNext]_vars

\* C33: the i-th file is labelled with the id of the i-th item of the
\* manifest as the client sent it, and with file-(i+1) only when the manifest
\* has no id for that position
C33_FileLabelledByItsManifestItem ==
    annotator.fileEntries # <<>> =>
        LET items == annotator.req.meta.items
        IN  \A i \in DOMAIN annotator.fileEntries :
                annotator.fileEntries[i].clientId =
                    IF i <= Len(items) /\ items[i].hasId
                    THEN items[i].id ELSE fallbackId(i)

\* the request has no file, more than MAX_FILES files, or a file of a type
\* that is not supported
Rejectable(req) ==
    \/ Len(req.files) = 0
    \/ Len(req.files) > MAX_FILES
    \/ \E i \in DOMAIN req.files : ~isSupportedFile(req.files[i])

IsTrimmed(text) == text # <<>> /\ ~isSpace(text[1]) /\ ~isSpace(text[Len(text)])

\* the candidate has an id, a title and a tag that are not blank
Passes(item) ==
    /\ item.hasId /\ ~IsBlank(item.id)
    /\ item.hasTitle /\ ~IsBlank(item.title)
    /\ \/ /\ item.tagsKind = "array"
          /\ \E i \in DOMAIN item.tags : ~IsBlank(item.tags[i])
       \/ /\ item.tagsKind = "string"
          /\ \E i \in DOMAIN item.tags : item.tags[i] # "," /\ ~isSpace(item.tags[i])

\* C35: every result of a success response has a non-empty trimmed id, a
\* non-empty trimmed title and between 1 and MAX_TAGS non-empty trimmed tags;
\* a success response has a result, and when no candidate of the provider
\* passes the filter the response is an error
C35_SuccessResultsAreSanitized ==
    annotator.pc = "done" =>
        /\ annotator.response.status = 200 =>
              /\ annotator.response.body # <<>>
              /\ \A i \in DOMAIN annotator.response.body :
                    LET result == annotator.response.body[i]
                    IN  /\ IsTrimmed(result.id)
                        /\ IsTrimmed(result.title)
                        /\ Len(result.tags) \in 1..MAX_TAGS
                        /\ \A t \in DOMAIN result.tags : IsTrimmed(result.tags[t])
        /\ (annotator.generated
            /\ \A i \in DOMAIN annotator.raw : ~Passes(annotator.raw[i]))
           => /\ annotator.response.status >= 400
              /\ annotator.response.hasError

\* the provider returned a candidate with an id of blanks and one with an id,
\* a title and tags to trim and to cap: the response holds the second alone
C35_Witness ==
    /\ annotator.pc = "done"
    /\ annotator.response.status = 200
    /\ Len(annotator.raw) = 2
    /\ annotator.raw[1] = RawBlankId
    /\ Len(annotator.response.body) = 1
    /\ annotator.response.body[1].id # annotator.raw[2].id
    /\ Len(annotator.raw[2].tags) > MAX_TAGS

\* C38, as stated: when the service has answered, no file it uploaded is left
\* at the provider
C38_NoUploadedFileLeft ==
    annotator.pc = "done" => annotator.provider = {}

\* C38, amended: when the service has answered, deleteFile was called for
\* every file it uploaded, and a file is left at the provider only when that
\* call failed
C38_EveryUploadedFileDeleteRequested ==
    annotator.pc = "done" =>
        /\ annotator.deleteRequested = Range(annotator.uploadedFileIds)
        /\ annotator.provider = annotator.failedDeletes
        /\ annotator.failedDeletes \subseteq Range(annotator.uploadedFileIds)

\* the second file failed to become active: both files were deleted
C38_Witness ==
    /\ annotator.pc = "done"
    /\ "activation" \in annotator.faults
    /\ Len(annotator.uploadedFileIds) = 2
    /\ Len(annotator.preparedFiles) = 1
    /\ annotator.provider = {}
    /\ annotator.response.status = 500

=============================================================================
